---------------------------- MODULE Spec2Model ----------------------------
(***************************************************************************)
(* Model of scripts/convert_m3u8_to_json.py: the playlist ingestion and    *)
(* catalog partitioning pipeline (lexer, classifier, category normalizer,  *)
(* identifier generator, deduplicator, partitioner, index builder).        *)
(*                                                                         *)
(* Text is modelled as a sequence of one-character strings, so that the    *)
(* code's str methods and regular expressions are computed character by    *)
(* character.  A character beyond Latin-1 (and the grave accent) is        *)
(* written by its code point: "U+2013" is the en dash.  Python's None is   *)
(* the value None below, which is no text.                                 *)
(***************************************************************************)
EXTENDS Integers, Sequences, FiniteSets, TLC

(***************************************************************************)
(* Python str primitives.                                                  *)
(***************************************************************************)

\* The letters str.lower()/str.upper() change, among the characters the
\* model's texts are written with (every other character maps to itself).
UpperCaseLetters ==
    <<"A","B","C","D","E","F","G","H","I","J","K","L","M","N","O","P","Q","R",
      "S","T","U","V","W","X","Y","Z","Á","Â","Ã","À","Ç","É","Ê","Í","Ó","Ô",
      "Õ","Ú">>

LowerCaseLetters ==
    <<"a","b","c","d","e","f","g","h","i","j","k","l","m","n","o","p","q","r",
      "s","t","u","v","w","x","y","z","á","â","ã","à","ç","é","ê","í","ó","ô",
      "õ","ú">>

ToLowerMap ==
    [c \in {UpperCaseLetters[i] : i \in DOMAIN UpperCaseLetters} |->
        LowerCaseLetters[CHOOSE i \in DOMAIN UpperCaseLetters : UpperCaseLetters[i] = c]]

ToUpperMap ==
    [c \in {LowerCaseLetters[i] : i \in DOMAIN LowerCaseLetters} |->
        UpperCaseLetters[CHOOSE i \in DOMAIN LowerCaseLetters : LowerCaseLetters[i] = c]]

LowerChar(c) == IF c \in DOMAIN ToLowerMap THEN ToLowerMap[c] ELSE c

UpperChar(c) == IF c \in DOMAIN ToUpperMap THEN ToUpperMap[c] ELSE c

\* str.lower()
Lower(s) == [i \in 1..Len(s) |-> LowerChar(s[i])]

\* str.upper()
Upper(s) == [i \in 1..Len(s) |-> UpperChar(s[i])]

Digits == <<"0","1","2","3","4","5","6","7","8","9">>

\* \d of the re module
IsDigit(c) == \E i \in DOMAIN Digits : Digits[i] = c

\* int() of one decimal digit
DigitValue(c) == (CHOOSE i \in DOMAIN Digits : Digits[i] = c) - 1

\* \s of the re module, and what str.strip() removes
IsSpace(c) == c \in {" ", "\t", "\r"}

\* [a-z] of the re module (ASCII letters only)
IsAsciiLower(c) == \E i \in 1..26 : LowerCaseLetters[i] = c

\* s[i:] with i counted from 1
Tail_(s, i) == SubSeq(s, i, Len(s))

\* str.startswith(p) at position i (from 1) of s
MatchAt(s, i, p) ==
    /\ i + Len(p) - 1 <= Len(s)
    /\ Len(p) = 0 \/ (s[i] = p[1] /\ SubSeq(s, i, i + Len(p) - 1) = p)

\* the same, ignoring case (re.IGNORECASE on a literal)
MatchAtNoCase(s, i, p) == MatchAt(Lower(s), i, Lower(p))

StartsWith(s, p) == MatchAt(s, 1, p)

EndsWith(s, p) == Len(p) <= Len(s) /\ SubSeq(s, Len(s) - Len(p) + 1, Len(s)) = p

\* p in s
Contains(s, p) == \E i \in 1..(Len(s) + 1) : MatchAt(s, i, p)

\* s.find(p) + 1: the first position (from 1) where p occurs in s, 0 if none
RECURSIVE FindFrom(_, _, _)
FindFrom(s, p, i) ==
    IF i + Len(p) - 1 > Len(s) THEN 0
    ELSE IF MatchAt(s, i, p) THEN i
    ELSE FindFrom(s, p, i + 1)

Find(s, p) == FindFrom(s, p, 1)

\* the number of consecutive characters of s from position i that satisfy
\* the test: the greedy run a \d+ or \s* consumes
RECURSIVE DigitRun(_, _)
DigitRun(s, i) ==
    IF i <= Len(s) /\ IsDigit(s[i]) THEN 1 + DigitRun(s, i + 1) ELSE 0

RECURSIVE SpaceRun(_, _)
SpaceRun(s, i) ==
    IF i <= Len(s) /\ IsSpace(s[i]) THEN 1 + SpaceRun(s, i + 1) ELSE 0

\* the number of whitespace characters that end s[1..i]
RECURSIVE SpaceRunBack(_, _)
SpaceRunBack(s, i) ==
    IF i >= 1 /\ IsSpace(s[i]) THEN 1 + SpaceRunBack(s, i - 1) ELSE 0

\* str.strip()
Strip(s) ==
    LET a == SpaceRun(s, 1)
        b == SpaceRunBack(s, Len(s))
    IN  IF a = Len(s) THEN <<>> ELSE SubSeq(s, a + 1, Len(s) - b)

\* str.replace(old, new): every non-overlapping occurrence, left to right
RECURSIVE Replace(_, _, _)
ReplaceFrom(s, old, new, i) ==
    IF i = 0 \/ Len(old) = 0 THEN s
    ELSE SubSeq(s, 1, i - 1) \o new \o Replace(Tail_(s, i + Len(old)), old, new)

Replace(s, old, new) == ReplaceFrom(s, old, new, Find(s, old))

\* int() of a run of decimal digits
RECURSIVE ParseInt(_)
ParseInt(ds) ==
    IF Len(ds) = 0 THEN 0
    ELSE 10 * ParseInt(SubSeq(ds, 1, Len(ds) - 1)) + DigitValue(ds[Len(ds)])

\* str() of a natural number
RECURSIVE Str(_)
Str(n) == IF n < 10 THEN <<Digits[n + 1]>> ELSE Str(n \div 10) \o <<Digits[(n % 10) + 1]>>

\* Python's None, and the truth value of an optional text
None == <<"None">>

Truthy(s) == s # None /\ Len(s) > 0

(***************************************************************************)
(* Entry classifier: the ignore list, the adult flag, movie or series,     *)
(* the series tuple and the cleaned name.                                  *)
(***************************************************************************)

IGNORED_CATEGORIES ==
    <<
      <<"U+23FA","U+FE0F"," ","A","B","E","R","T","O">>,
      <<"U+23FA","U+FE0F"," ","B","A","N","D">>,
      <<"U+23FA","U+FE0F"," ","S","B","T">>,
      <<"U+23FA","U+FE0F"," ","G","L","O","B","O">>,
      <<"U+23FA","U+FE0F"," ","R","E","C","O","R","D">>,
      <<"U+23FA","U+FE0F"," ","H","B","O">>,
      <<"U+23FA","U+FE0F"," ","T","E","L","E","C","I","N","E">>,
      <<"U+23FA","U+FE0F"," ","D","I","S","C","O","V","E","R","Y">>,
      <<"U+23FA","U+FE0F"," ","C","I","N","E"," ","S","K","Y">>,
      <<"U+23FA","U+FE0F"," ","F","I","L","M","E","S"," ","E"," ","S","E","R","I","E","S">>,
      <<"U+23FA","U+FE0F"," ","N","O","T","I","C","I","A">>,
      <<"U+23FA","U+FE0F"," ","N","B","A">>,
      <<"U+23FA","U+FE0F"," ","R","U","N","T","I","M","E">>,
      <<"U+23FA","U+FE0F"," ","4","K">>,
      <<"G","L","O","B","O"," ","(","C","E","N","T","R","O","-","O","E","S","T","E",")">>,
      <<"G","L","O","B","O"," ","(","N","O","R","D","E","S","T","E",")">>,
      <<"G","L","O","B","O"," ","(","N","O","R","T","E",")">>,
      <<"G","L","O","B","O"," ","(","S","U","D","E","S","T","E",")">>,
      <<"G","L","O","B","O"," ","(","S","U","L",")">>,
      <<"U+26BD","A","P","P","L","E","T","V">>,
      <<"U+26BD","D","A","Z","N">>,
      <<"U+26BD","D","I","S","N","E","Y">>,
      <<"U+26BD","E","S","P","O","R","T","E">>,
      <<"U+26BD","H","B","O">>,
      <<"U+26BD","P","A","R","A","M","O","U","N","T">>,
      <<"U+26BD","P","R","E","M","I","E","R","E">>,
      <<"U+26BD","P","R","I","M","E">>,
      <<"U+26BD"," ","C","O","P","I","N","H","A">>,
      <<"A"," ","F","A","Z","E","N","D","A">>,
      <<"B","B","B"," ","2","0">>,
      <<"B","B","B"," ","2","0","2","6">>,
      <<"E","S","T","R","E","L","A"," ","D","A"," ","C","A","S","A">>,
      <<"Á","r","e","a"," ","d","o"," ","c","l","i","e","n","t","e">>,
      <<"J","O","G","O","S"," ","D","E"," ","H","O","J","E">>,
      <<"R","Á","D","I","O","S"," ","F","M">>,
      <<"C","A","N","A","I","S",":">> >>

ADULT_KEYWORDS ==
    <<
      <<"A","D","U","L","T","O","S">>,
      <<"[","H","O","T","]">>,
      <<"X","X","X">>,
      <<"[","A","d","u","l","t","o","]">>,
      <<"A","D","U","L","T","O">>,
      <<"U+274C","U+2764","U+FE0F">> >>

SERIES_CATEGORY_KEYWORDS ==
    <<
      <<"s","e","r","i","e","s">>,
      <<"s","é","r","i","e">>,
      <<"n","o","v","e","l","a","s">>,
      <<"d","o","r","a","m","a","s">>,
      <<"p","r","o","g","r","a","m","a","s">>,
      <<"s","t","a","n","d"," ","u","p">>,
      <<"2","4","h">> >>

\* should_ignore_category, with only the `category == ignored` test
ExactIgnoreOnly(category) ==
    \E k \in DOMAIN IGNORED_CATEGORIES : category = IGNORED_CATEGORIES[k]

\* ignored.upper() of line 58, for each entry of the list
upper_ignored == [k \in DOMAIN IGNORED_CATEGORIES |-> Upper(IGNORED_CATEGORIES[k])]

\* Lines 57-60: the loop, with upper = category.upper() of line 56
IgnoredFor(category, upper) ==
    \E k \in DOMAIN IGNORED_CATEGORIES :
        \/ StartsWith(upper, upper_ignored[k])
        \/ upper = upper_ignored[k]
        \/ category = IGNORED_CATEGORIES[k]

should_ignore_category(category) == IgnoredFor(category, Upper(category))

is_series_by_category(category) ==
    LET lower == Lower(category)
    IN  \E k \in DOMAIN SERIES_CATEGORY_KEYWORDS :
            Contains(lower, SERIES_CATEGORY_KEYWORDS[k])

is_adult_content(name, category) ==
    LET combined == name \o <<" ">> \o category
    IN  \E k \in DOMAIN ADULT_KEYWORDS : Contains(combined, ADULT_KEYWORDS[k])

\* the least of a non-empty set of positions
Least(ks) == CHOOSE k \in ks : \A k2 \in ks : k <= k2

\* `\d+\s*<sep>\s*\d+` (or `\d+\s*<sep>\d+` when spaceAfter is FALSE) tried at
\* position i of s, ignoring the case of sep: whether it matches, and the two
\* digit groups.  Every quantifier is greedy and no shorter choice can match.
NumSepNumAt(s, i, sep, spaceAfter) ==
    LET d1 == DigitRun(s, i)
        j  == i + d1 + SpaceRun(s, i + d1)
        k  == j + 1 + (IF spaceAfter THEN SpaceRun(s, j + 1) ELSE 0)
        d2 == DigitRun(s, k)
        ok == d1 >= 1 /\ j <= Len(s) /\ LowerChar(s[j]) = sep /\ d2 >= 1
    IN  [ok |-> ok,
         g1 |-> IF ok THEN SubSeq(s, i, i + d1 - 1) ELSE <<>>,
         g2 |-> IF ok THEN SubSeq(s, k, k + d2 - 1) ELSE <<>>]

\* `<letter>\d+\s*E\d+` tried at position i, ignoring case
LetterEpisodeAt(s, i, letter) ==
    IF i <= Len(s) /\ LowerChar(s[i]) = letter
    THEN NumSepNumAt(s, i + 1, "e", FALSE)
    ELSE [ok |-> FALSE, g1 |-> <<>>, g2 |-> <<>>]

\* `<word>\s*\d+` (`<word>\.?\s*\d+` when optDot) tried at position i, ignoring case
WordNumAt(s, i, word, optDot) ==
    LET j == i + Len(word)
        k == IF optDot /\ j <= Len(s) /\ s[j] = "." THEN j + 1 ELSE j
    IN  MatchAtNoCase(s, i, word) /\ DigitRun(s, k + SpaceRun(s, k)) >= 1

\* EPISODE_PATTERNS[n].search(name)
EpisodePatternSearch(n, name) ==
    \E i \in 1..Len(name) :
        CASE n = 1 -> LetterEpisodeAt(name, i, "s").ok
          [] n = 2 -> LetterEpisodeAt(name, i, "t").ok
          [] n = 3 -> NumSepNumAt(name, i, "x", TRUE).ok
          [] n = 4 -> WordNumAt(name, i, <<"t","e","m","p","o","r","a","d","a">>, FALSE)
          [] n = 5 -> WordNumAt(name, i, <<"t","e","m","p">>, TRUE)
          [] n = 6 -> WordNumAt(name, i, <<"s","e","a","s","o","n">>, FALSE)

is_series_by_name(name) == \E n \in 1..6 : EpisodePatternSearch(n, name)

\* SERIES_INFO_PATTERNS[n] with the lazy title group ending at position k:
\* `^(.+?)\s*` has consumed name[1..k] and the whitespace after it.
SeriesInfoTail(n, name, k) ==
    LET p == k + 1 + SpaceRun(name, k + 1)
    IN  CASE n = 1 -> LetterEpisodeAt(name, p, "s")
          [] n = 2 -> LetterEpisodeAt(name, p, "t")
          [] n = 3 -> NumSepNumAt(name, p, "x", TRUE)

\* SERIES_INFO_PATTERNS[n].match(name): the lazy group takes the shortest
\* title (at least one character) after which the rest matches
\* (match.group(1).strip(), int(match.group(2)), int(match.group(3)))
SeriesTuple(name, k, m) == <<Strip(SubSeq(name, 1, k)), ParseInt(m.g1), ParseInt(m.g2)>>

SeriesInfoAt(n, name, k) == SeriesTuple(name, k, SeriesInfoTail(n, name, k))

ShortestTitle(n, name, ks) == IF ks = {} THEN None ELSE SeriesInfoAt(n, name, Least(ks))

SeriesInfoMatch(n, name) ==
    ShortestTitle(n, name, {k \in 1..Len(name) : SeriesInfoTail(n, name, k).ok})

\* the first of three optional values that is not None
FirstOf(a, b, c) == IF a # None THEN a ELSE IF b # None THEN b ELSE c

\* parse_series_info: None, or <<series name, season, episode>>
parse_series_info(name) ==
    FirstOf(SeriesInfoMatch(1, name), SeriesInfoMatch(2, name), SeriesInfoMatch(3, name))

\* re.sub(r'^\d+\s*[-–]\s*', '', name)
StripOrdinal(name) ==
    LET d == DigitRun(name, 1)
        j == 1 + d + SpaceRun(name, 1 + d)
    IN  IF d >= 1 /\ j <= Len(name) /\ name[j] \in {"-", "U+2013"}
        THEN Tail_(name, j + 1 + SpaceRun(name, j + 1))
        ELSE name

\* re.sub(r'\s*\[L\]\s*$', '', name, flags=re.IGNORECASE)
StripTrailingL(name) ==
    LET e == Len(name) - SpaceRunBack(name, Len(name))
    IN  IF e >= 3 /\ MatchAtNoCase(name, e - 2, <<"[","l","]">>)
        THEN SubSeq(name, 1, (e - 3) - SpaceRunBack(name, e - 3))
        ELSE name

\* re.sub(r'\s*<marker>\s*', '', name, flags=re.IGNORECASE): every occurrence
\* of the marker goes, with the whitespace around it
RECURSIVE RemoveMarker(_, _)
RemoveMarkerAt(name, marker, p) ==
    SubSeq(name, 1, p - SpaceRunBack(name, p - 1) - 1)
        \o RemoveMarker(Tail_(name, p + Len(marker) + SpaceRun(name, p + Len(marker))), marker)

RemoveFirstMarker(name, marker, ps) ==
    IF ps = {} THEN name ELSE RemoveMarkerAt(name, marker, Least(ps))

RemoveMarker(name, marker) ==
    RemoveFirstMarker(name, marker, {p \in 1..Len(name) : MatchAtNoCase(name, p, marker)})

clean_name(name) ==
    Strip(RemoveMarker(RemoveMarker(StripTrailingL(StripOrdinal(name)), <<"(","d","u","b",")">>), <<"(","l","e","g",")">>))

(***************************************************************************)
(* Identifier generator.                                                   *)
(***************************************************************************)

\* re.sub(r'[^a-z0-9\s]', '', s)
RECURSIVE KeepSlugChars(_)
KeepSlugChars(s) ==
    IF Len(s) = 0 THEN <<>>
    ELSE (IF IsAsciiLower(s[1]) \/ IsDigit(s[1]) \/ IsSpace(s[1]) THEN <<s[1]>> ELSE <<>>)
            \o KeepSlugChars(Tail(s))

\* re.sub(r'\s+', '-', s)
RECURSIVE HyphenateSpaces(_)
HyphenateSpaces(s) ==
    IF Len(s) = 0 THEN <<>>
    ELSE IF IsSpace(s[1]) THEN <<"-">> \o HyphenateSpaces(Tail_(s, 1 + SpaceRun(s, 1)))
    ELSE <<s[1]>> \o HyphenateSpaces(Tail(s))

\* The printable ASCII characters, from the space (code 32) on
Ascii ==
    <<" ","!","\"","#","$","%","&","'","(",")","*","+",",","-",".","/","0","1","2","3","4","5","6","7","8","9",":",";","<","=",">","?","@","A","B","C","D","E","F","G","H","I","J","K","L","M","N","O","P","Q","R","S","T","U","V","W","X","Y","Z","[","\\","]","^","_","U+0060","a","b","c","d","e","f","g","h","i","j","k","l","m","n","o","p","q","r","s","t","u","v","w","x","y","z","{","|","}","~">>

\* ord(c) for an ASCII character; one code stands for every other character
Ord(c) ==
    IF \E i \in DOMAIN Ascii : Ascii[i] = c
    THEN 31 + (CHOOSE i \in DOMAIN Ascii : Ascii[i] = c)
    ELSE 128

\* The width of the hash values of the model.  CPython's hash() of a str is a
\* 64-bit keyed hash (SipHash); the model keeps the shape (a signed value that
\* depends on the process's key and on every character) at a smaller width.
HashModulus == 2^24

RECURSIVE HashFold(_, _)
HashFold(h, s) ==
    IF Len(s) = 0 THEN h
    ELSE HashFold((h * 31 + Ord(s[1])) % HashModulus, Tail(s))

\* hash(url) in a process whose string-hash key is key: the key is drawn anew
\* by every interpreter start (hash randomization), unless PYTHONHASHSEED
\* fixes it
PyHash(key, s) ==
    LET v == HashFold(key, s)
    IN  IF v >= HashModulus \div 2 THEN v - HashModulus ELSE v

Abs(n) == IF n < 0 THEN -n ELSE n

\* Line 98
HashPart(url_hash) == IF Len(url_hash) > 6 THEN SubSeq(url_hash, 1, 6) ELSE url_hash

generate_id(key, name, url) ==
    HyphenateSpaces(Strip(KeepSlugChars(Lower(name))))
        \o <<"-">> \o HashPart(Str(Abs(PyHash(key, url))))

(***************************************************************************)
(* Category normalizer.                                                    *)
(***************************************************************************)

\* Lines 104-116: the structural prefixes
\* `x if x else default`
OrDefault(x, default) == IF Len(x) > 0 THEN x ELSE default

\* Lines 106-107
DropTrailingDash(n) == IF EndsWith(n, <<" ","-">>) THEN Strip(SubSeq(n, 1, Len(n) - 2)) ELSE n

\* Lines 108-109
Capitalize(n) == IF Len(n) > 0 THEN <<UpperChar(n[1])>> \o Tail(n) ELSE n

StripCategoryPrefix(category) ==
    IF StartsWith(category, <<"O","N","D"," ","/">>)
    THEN OrDefault(Capitalize(DropTrailingDash(Strip(Replace(category, <<"O","N","D"," ","/">>, <<>>)))),
                   <<"F","i","l","m","e","s">>)
    ELSE IF StartsWith(category, <<"S","e","r","i","e","s"," ","|">>)
    THEN OrDefault(Strip(Replace(category, <<"S","e","r","i","e","s"," ","|">>, <<>>)), <<"S","é","r","i","e","s">>)
    ELSE IF StartsWith(category, <<"C","O","L","E","T","Â","N","E","A",":">>)
    THEN Strip(Replace(category, <<"C","O","L","E","T","Â","N","E","A",":">>, <<>>))
    ELSE category

\* Lines 231-237: re.search(r'20\d{2}', category) and the name it gives
LancamentosOf(category, ys) ==
    IF ys = {} THEN <<"L","a","n","ç","a","m","e","n","t","o","s">>
    ELSE <<"L","a","n","ç","a","m","e","n","t","o","s"," ">> \o SubSeq(category, Least(ys), Least(ys) + 3)

Lancamentos(category) ==
    LancamentosOf(category, {i \in 1..Len(category) :
                       MatchAt(category, i, <<"2","0">>) /\ DigitRun(category, i + 2) >= 2})

\* Lines 121-273: the rule chain, in the order of the code; `when` is the
\* rule's test and `then` the name it returns
NormalizeRules(category, lower) ==
    <<
      [when |-> Contains(lower, <<"n","e","t","f","l","i","x">>),
       then |-> <<"N","e","t","f","l","i","x">>],
      [when |-> (Contains(lower, <<"p","r","i","m","e"," ","v","i","d","e","o">>) \/ Contains(lower, <<"a","m","a","z","o","n"," ","p","r","i","m","e">>)),
       then |-> <<"P","r","i","m","e"," ","V","i","d","e","o">>],
      [when |-> Contains(lower, <<"d","i","s","n","e","y">>),
       then |-> <<"D","i","s","n","e","y","+">>],
      [when |-> (Contains(lower, <<"m","a","x">>) /\ ~Contains(lower, <<"m","a","d"," ","m","a","x">>)),
       then |-> <<"M","a","x">>],
      [when |-> Contains(lower, <<"h","b","o">>),
       then |-> <<"M","a","x">>],
      [when |-> Contains(lower, <<"g","l","o","b","o","p","l","a","y">>),
       then |-> <<"G","l","o","b","o","p","l","a","y">>],
      [when |-> Contains(lower, <<"p","a","r","a","m","o","u","n","t">>),
       then |-> <<"P","a","r","a","m","o","u","n","t","+">>],
      [when |-> Contains(lower, <<"a","p","p","l","e">>),
       then |-> <<"A","p","p","l","e"," ","T","V","+">>],
      [when |-> (Contains(lower, <<"s","t","a","r">>) /\ Contains(lower, <<"s","t","a","r"," ","p","l","u","s">>)),
       then |-> <<"S","t","a","r","+">>],
      [when |-> Contains(lower, <<"d","i","s","c","o","v","e","r","y">>),
       then |-> <<"D","i","s","c","o","v","e","r","y","+">>],
      [when |-> Contains(lower, <<"c","r","u","n","c","h","y","r","o","l","l">>),
       then |-> <<"C","r","u","n","c","h","y","r","o","l","l">>],
      [when |-> Contains(lower, <<"f","u","n","i","m","a","t","i","o","n">>),
       then |-> <<"F","u","n","i","m","a","t","i","o","n">>],
      [when |-> Contains(lower, <<"d","i","r","e","c","t","v">>),
       then |-> <<"D","i","r","e","c","T","V">>],
      [when |-> Contains(lower, <<"c","l","a","r","o"," ","v","i","d","e","o">>),
       then |-> <<"C","l","a","r","o"," ","V","i","d","e","o">>],
      [when |-> Contains(lower, <<"l","i","o","n","s","g","a","t","e">>),
       then |-> <<"L","i","o","n","s","g","a","t","e">>],
      [when |-> Contains(lower, <<"p","l","u","t","o","t","v">>),
       then |-> <<"P","l","u","t","o","T","V">>],
      [when |-> Contains(lower, <<"p","l","a","y"," ","p","l","u","s">>),
       then |-> <<"P","l","a","y"," ","P","l","u","s">>],
      [when |-> Contains(lower, <<"a","m","c">>),
       then |-> <<"A","M","C","+">>],
      [when |-> Contains(lower, <<"b","r","a","s","i","l"," ","p","a","r","a","l","e","l","o">>),
       then |-> <<"B","r","a","s","i","l"," ","P","a","r","a","l","e","l","o">>],
      [when |-> Contains(lower, <<"s","b","t">>),
       then |-> <<"S","B","T">>],
      [when |-> Contains(lower, <<"u","n","i","v","e","r">>),
       then |-> <<"U","n","i","v","e","r">>],
      [when |-> Contains(lower, <<"n","o","v","e","l","a">>),
       then |-> <<"N","o","v","e","l","a","s">>],
      [when |-> Contains(lower, <<"d","o","r","a","m","a">>),
       then |-> <<"D","o","r","a","m","a","s">>],
      [when |-> Contains(lower, <<"a","n","i","m","e">>),
       then |-> <<"A","n","i","m","e","s">>],
      [when |-> Contains(lower, <<"t","u","r","c","a">>),
       then |-> <<"T","u","r","c","a","s">>],
      [when |-> (Contains(lower, <<"p","r","o","g","r","a","m","a","s"," ","d","e"," ","t","v">>) \/ <<"p","r","o","g","r","a","m","a","s">> = lower),
       then |-> <<"P","r","o","g","r","a","m","a","s"," ","d","e"," ","T","V">>],
      [when |-> (Contains(lower, <<"s","t","a","n","d"," ","u","p">>) \/ Contains(lower, <<"s","t","a","n","d","-","u","p">>)),
       then |-> <<"S","t","a","n","d"," ","U","p">>],
      [when |-> Contains(lower, <<"l","e","g","e","n","d","a","d">>),
       then |-> <<"L","e","g","e","n","d","a","d","o","s">>],
      [when |-> (Contains(lower, <<"d","o","c","u","m","e","n","t">>) \/ <<"d","o","c","u">> = lower),
       then |-> <<"D","o","c","u","m","e","n","t","á","r","i","o">>],
      [when |-> (Contains(lower, <<"c","o","m">>) /\ (Contains(lower, <<"d","i","a">>) \/ Contains(lower, <<"e","d","i","a">>) \/ Contains(lower, <<"é","d","i","a">>))),
       then |-> <<"C","o","m","é","d","i","a">>],
      [when |-> Contains(lower, <<"d","r","a","m","a">>),
       then |-> <<"D","r","a","m","a">>],
      [when |-> Contains(lower, <<"t","e","r","r","o","r">>),
       then |-> <<"T","e","r","r","o","r">>],
      [when |-> (StartsWith(lower, <<"a">>) /\ (Contains(lower, <<"ç","ã","o">>) \/ Contains(lower, <<"c","a","o">>))),
       then |-> <<"A","ç","ã","o">>],
      [when |-> Contains(lower, <<"s","u","s","p","e","n","s","e">>),
       then |-> <<"S","u","s","p","e","n","s","e">>],
      [when |-> Contains(lower, <<"r","o","m","a","n","c","e">>),
       then |-> <<"R","o","m","a","n","c","e">>],
      [when |-> (Contains(lower, <<"a","n","i","m","a">>) /\ (Contains(lower, <<"ç","ã","o">>) \/ Contains(lower, <<"c","a","o">>))),
       then |-> <<"A","n","i","m","a","ç","ã","o">>],
      [when |-> (Contains(lower, <<"f","a","n","t","a","s","i","a">>) \/ (Contains(lower, <<"f","i","c">>) /\ Contains(lower, <<"o">>))),
       then |-> <<"F","a","n","t","a","s","i","a">>],
      [when |-> Contains(lower, <<"f","a","r","o","e","s","t","e">>),
       then |-> <<"F","a","r","o","e","s","t","e">>],
      [when |-> Contains(lower, <<"g","u","e","r","r","a">>),
       then |-> <<"G","u","e","r","r","a">>],
      [when |-> Contains(lower, <<"a","v","e","n","t","u","r","a">>),
       then |-> <<"A","v","e","n","t","u","r","a">>],
      [when |-> Contains(lower, <<"r","e","l","i","g","i","o">>),
       then |-> <<"R","e","l","i","g","i","o","s","o","s">>],
      [when |-> Contains(lower, <<"n","a","c","i","o","n">>),
       then |-> <<"N","a","c","i","o","n","a","i","s">>],
      [when |-> Contains(lower, <<"c","r","i","m","e">>),
       then |-> <<"C","r","i","m","e">>],
      [when |-> (Contains(lower, <<"f","a","m">>) /\ Contains(lower, <<"l","i","a">>)),
       then |-> <<"F","a","m","í","l","i","a">>],
      [when |-> (Contains(lower, <<"m","a","r","v","e","l">>) \/ Contains(lower, <<"u","c","m">>)),
       then |-> <<"M","a","r","v","e","l">>],
      [when |-> (Contains(lower, <<"4","k">>) \/ Contains(lower, <<"u","h","d">>)),
       then |-> <<"U","H","D"," ","4","K">>],
      [when |-> Contains(lower, <<"i","n","f","a","n","t","i","l">>),
       then |-> <<"I","n","f","a","n","t","i","l">>],
      [when |-> Contains(lower, <<"e","s","p","o","r","t","e">>),
       then |-> <<"E","s","p","o","r","t","e","s">>],
      [when |-> Contains(lower, <<"s","h","o","w">>),
       then |-> <<"S","h","o","w","s">>],
      [when |-> Contains(lower, <<"c","i","n","e","m","a">>),
       then |-> <<"C","i","n","e","m","a">>],
      [when |-> Contains(lower, <<"o","s","c","a","r">>),
       then |-> <<"O","s","c","a","r">>],
      [when |-> (Contains(lower, <<"h","o","t">>) \/ Contains(lower, <<"a","d","u","l","t">>)),
       then |-> <<"A","d","u","l","t","o","s">>],
      [when |-> (Contains(lower, <<"s","u","g","e","s","t">>) \/ Contains(lower, <<"s","e","m","a","n","a">>)),
       then |-> <<"S","u","g","e","s","t","ã","o"," ","d","a"," ","S","e","m","a","n","a">>],
      [when |-> (Contains(lower, <<"o","u","t","r","a">>) /\ Contains(lower, <<"p","r","o","d","u","t","o","r","a">>)),
       then |-> <<"O","u","t","r","a","s"," ","P","r","o","d","u","t","o","r","a","s">>],
      [when |-> (Contains(lower, <<"l","a","n","ç","a","m","e","n","t","o">>) \/ Contains(lower, <<"l","a","n","c","a","m","e","n","t","o">>)),
       then |-> Lancamentos(category)],
      [when |-> (Contains(lower, <<"d","u","b","l","a","g","e","m">>) /\ Contains(lower, <<"o","f","i","c","i","a","l">>)),
       then |-> <<"D","u","b","l","a","g","e","m"," ","N","ã","o"," ","O","f","i","c","i","a","l">>],
      [when |-> <<"a","l","i","e","n">> = lower,
       then |-> <<"C","o","l","e","t","â","n","e","a",":"," ","A","l","i","e","n">>],
      [when |-> Contains(lower, <<"a","m","e","r","i","c","a","n"," ","p","i","e">>),
       then |-> <<"C","o","l","e","t","â","n","e","a",":"," ","A","m","e","r","i","c","a","n"," ","P","i","e">>],
      [when |-> (Contains(lower, <<"j","o","h","n"," ","w","i","c","k">>) \/ Contains(lower, <<"j","h","o","n"," ","w","i","c","k">>)),
       then |-> <<"C","o","l","e","t","â","n","e","a",":"," ","J","o","h","n"," ","W","i","c","k">>],
      [when |-> Contains(lower, <<"d","e","n","z","e","l">>),
       then |-> <<"C","o","l","e","t","â","n","e","a",":"," ","D","e","n","z","e","l"," ","W","a","s","h","i","n","g","t","o","n">>],
      [when |-> Contains(lower, <<"m","a","d"," ","m","a","x">>),
       then |-> <<"C","o","l","e","t","â","n","e","a",":"," ","M","a","d"," ","M","a","x">>],
      [when |-> (Contains(lower, <<"h","o","m","e","m"," ","a","r","a","n","h","a">>) \/ Contains(lower, <<"a","r","a","n","h","a">>)),
       then |-> <<"C","o","l","e","t","â","n","e","a",":"," ","H","o","m","e","m"," ","A","r","a","n","h","a">>],
      [when |-> Contains(lower, <<"j","o","g","o","s"," ","m","o","r","t","a","i","s">>),
       then |-> <<"C","o","l","e","t","â","n","e","a",":"," ","J","o","g","o","s"," ","M","o","r","t","a","i","s">>],
      [when |-> Contains(lower, <<"j","o","g","o","s"," ","v","o","r","a","z","e","s">>),
       then |-> <<"C","o","l","e","t","â","n","e","a",":"," ","J","o","g","o","s"," ","V","o","r","a","z","e","s">>],
      [when |-> (Contains(lower, <<"m","i","b">>) \/ Contains(lower, <<"h","o","m","e","n","s"," ","d","e"," ","p","r","e","t","o">>)),
       then |-> <<"C","o","l","e","t","â","n","e","a",":"," ","M","I","B">>],
      [when |-> Contains(lower, <<"e","x","t","e","r","m","i","n","a","d","o","r">>),
       then |-> <<"C","o","l","e","t","â","n","e","a",":"," ","E","x","t","e","r","m","i","n","a","d","o","r">>],
      [when |-> Contains(lower, <<"s","h","r","e","k">>),
       then |-> <<"C","o","l","e","t","â","n","e","a",":"," ","S","h","r","e","k">>],
      [when |-> (Contains(lower, <<"p">>) /\ Contains(lower, <<"n","i","c","o">>) /\ Contains(lower, <<"t","o","d","o">>)),
       then |-> <<"C","o","l","e","t","â","n","e","a",":"," ","T","o","d","o"," ","M","u","n","d","o"," ","e","m"," ","P","â","n","i","c","o">>],
      [when |-> Contains(lower, <<"t","o","y"," ","s","t","o","r","y">>),
       then |-> <<"C","o","l","e","t","â","n","e","a",":"," ","T","o","y"," ","S","t","o","r","y">>],
      [when |-> Contains(lower, <<"h","a","r","r","y"," ","p","o","t","t","e","r">>),
       then |-> <<"C","o","l","e","t","â","n","e","a",":"," ","H","a","r","r","y"," ","P","o","t","t","e","r">>],
      [when |-> (Contains(lower, <<"s","e","n","h","o","r"," ","d","o","s">>) /\ Contains(lower, <<"a","n">>)),
       then |-> <<"C","o","l","e","t","â","n","e","a",":"," ","S","e","n","h","o","r"," ","d","o","s"," ","A","n","é","i","s">>],
      [when |-> (Contains(lower, <<"c","r","e","p">>) /\ Contains(lower, <<"s","c","u","l","o">>)),
       then |-> <<"C","o","l","e","t","â","n","e","a",":"," ","C","r","e","p","ú","s","c","u","l","o">>] >>

\* A chain that goes on after a match, so that the last rule whose test holds
\* names the category
LastHit(category, rules, hits) ==
    IF hits = {} THEN category
    ELSE rules[CHOOSE k \in hits : \A k2 \in hits : k >= k2].then

\* the chain returns at the first rule whose test holds, and the category
\* itself (line 275) when none does
FirstHit(category, rules, hits) ==
    IF hits = {} THEN category ELSE rules[Least(hits)].then

ApplyRules(category, rules) ==
    FirstHit(category, rules, {k \in DOMAIN rules : rules[k].when})

\* Lines 118-275
NormalizeStripped(category) ==
    ApplyRules(category, NormalizeRules(category, Lower(category)))

normalize_category(category) == NormalizeStripped(StripCategoryPrefix(category))

\* re.sub(r'[^a-z0-9]+', '_', s)
RECURSIVE UnderscoreRuns(_, _)
UnderscoreRuns(s, inRun) ==
    IF Len(s) = 0 THEN <<>>
    ELSE IF IsAsciiLower(s[1]) \/ IsDigit(s[1])
    THEN <<s[1]>> \o UnderscoreRuns(Tail(s), FALSE)
    ELSE (IF inRun THEN <<>> ELSE <<"_">>) \o UnderscoreRuns(Tail(s), TRUE)

\* re.sub(r'^_+|_+$', '', s)
RECURSIVE StripUnderscores(_)
StripUnderscores(s) ==
    IF Len(s) > 0 /\ s[1] = "_" THEN StripUnderscores(Tail(s))
    ELSE IF Len(s) > 0 /\ s[Len(s)] = "_" THEN StripUnderscores(SubSeq(s, 1, Len(s) - 1))
    ELSE s

category_to_filename(category) == StripUnderscores(UnderscoreRuns(Lower(category), FALSE))

(***************************************************************************)
(* Line lexer and item construction (parse_m3u8_file).                     *)
(***************************************************************************)

\* re.search(r'<key>"([^"]*)"', line): the text between the quote that ends
\* the first `<key>"` of the line and the next quote; None when there is none
UpToQuote(rest, q) == IF q = 0 THEN None ELSE SubSeq(rest, 1, q - 1)

QuotedFrom(line, key, i) ==
    IF i = 0 THEN None
    ELSE UpToQuote(Tail_(line, i + Len(key) + 1),
                   Find(Tail_(line, i + Len(key) + 1), <<"\"">>))

AttrValue(line, key) == QuotedFrom(line, key, Find(line, key \o <<"\"">>))

\* re.search(r',(.+)$', line), group(1).strip(): the search takes the first
\* comma that has text after it, and `.+` runs to the end of the line
NameAfter(line, i) == IF i = 0 \/ i = Len(line) THEN None ELSE Strip(Tail_(line, i + 1))

ExtractName(line) == NameAfter(line, Find(line, <<",">>))

\* `x or 'Outros'`
OrOutros(x) == IF Truthy(x) THEN x ELSE <<"O","u","t","r","o","s">>

\* a dict with the optional key only when the condition holds
Optional(cond, field, value) == IF cond THEN (field :> value) ELSE <<>>

\* Lines 341-360: the dict, from the values lines 334-339 computed
ItemOf(id, name, url, logo, is_adult, is_series, series_info, normalized_category) ==
    [id   |-> id,
     name |-> name,
     url  |-> url,
     type |-> IF is_series \/ series_info # None THEN "series" ELSE "movie"]
    @@ Optional(Truthy(logo), "logo", logo)
    @@ Optional(is_adult, "isAdult", TRUE)
    @@ (IF series_info # None
        THEN [seriesName |-> series_info[1],
              season     |-> series_info[2],
              episode    |-> series_info[3]]
        ELSE <<>>)
    @@ ("_category" :> normalized_category)

\* Lines 334-360: the item of an entry that passed the filters
MakeItem(key, current_name, category, current_logo, url) ==
    ItemOf(generate_id(key, clean_name(current_name), url),
           clean_name(current_name),
           url,
           current_logo,
           is_adult_content(current_name, category),
           is_series_by_category(category) \/ is_series_by_name(current_name),
           parse_series_info(current_name),
           normalize_category(category))

NoPending == [name |-> None, category |-> None, logo |-> None, out |-> <<>>]

\* `x if x is not None else default` (lines 305, 309, 313)
IfMatched(x, default) == IF x # None THEN x ELSE default

\* A lexer that discards the entries no series rule recognises, instead of
\* making them movies
DiscardsUnrecognised(key, st, line) ==
    IF StartsWith(line, <<"#","E","X","T","I","N","F",":">>)
    THEN [name     |-> ExtractName(line),
          category |-> IfMatched(AttrValue(line, <<"g","r","o","u","p","-","t","i","t","l","e","=">>), <<"O","u","t","r","o","s">>),
          logo     |-> AttrValue(line, <<"t","v","g","-","l","o","g","o","=">>),
          out      |-> <<>>]
    ELSE IF StartsWith(line, <<"h","t","t","p">>) /\ Truthy(st.name)
    THEN IF EndsWith(Lower(line), <<".","t","s">>) THEN NoPending
         ELSE IF should_ignore_category(OrOutros(st.category)) THEN NoPending
         ELSE IF ~(is_series_by_category(OrOutros(st.category))
                   \/ is_series_by_name(st.name)) THEN NoPending
         ELSE [NoPending EXCEPT !.out =
                  <<MakeItem(key, st.name, OrOutros(st.category), st.logo, line)>>]
    ELSE [name |-> st.name, category |-> st.category, logo |-> st.logo, out |-> <<>>]

\* A lexer that skips a `.ts` URL and leaves the pending metadata as it is
KeepsPendingAfterTs(key, st, line) ==
    IF StartsWith(line, <<"#","E","X","T","I","N","F",":">>)
    THEN [name     |-> ExtractName(line),
          category |-> IfMatched(AttrValue(line, <<"g","r","o","u","p","-","t","i","t","l","e","=">>), <<"O","u","t","r","o","s">>),
          logo     |-> AttrValue(line, <<"t","v","g","-","l","o","g","o","=">>),
          out      |-> <<>>]
    ELSE IF StartsWith(line, <<"h","t","t","p">>) /\ Truthy(st.name)
    THEN IF EndsWith(Lower(line), <<".","t","s">>)
         THEN [name |-> st.name, category |-> st.category, logo |-> st.logo, out |-> <<>>]
         ELSE IF should_ignore_category(OrOutros(st.category)) THEN NoPending
         ELSE [NoPending EXCEPT !.out =
                  <<MakeItem(key, st.name, OrOutros(st.category), st.logo, line)>>]
    ELSE [name |-> st.name, category |-> st.category, logo |-> st.logo, out |-> <<>>]

\* A lexer that keeps the pending metadata after it has appended an item
ReusesMetadata(key, st, line) ==
    IF StartsWith(line, <<"#","E","X","T","I","N","F",":">>)
    THEN [name     |-> ExtractName(line),
          category |-> IfMatched(AttrValue(line, <<"g","r","o","u","p","-","t","i","t","l","e","=">>), <<"O","u","t","r","o","s">>),
          logo     |-> AttrValue(line, <<"t","v","g","-","l","o","g","o","=">>),
          out      |-> <<>>]
    ELSE IF StartsWith(line, <<"h","t","t","p">>) /\ Truthy(st.name)
    THEN IF EndsWith(Lower(line), <<".","t","s">>) THEN NoPending
         ELSE IF should_ignore_category(OrOutros(st.category)) THEN NoPending
         ELSE [name |-> st.name, category |-> st.category, logo |-> st.logo,
               out  |-> <<MakeItem(key, st.name, OrOutros(st.category), st.logo, line)>>]
    ELSE [name |-> st.name, category |-> st.category, logo |-> st.logo, out |-> <<>>]

\* Lines 299-364: one turn of the loop over the lines, for a line already
\* stripped.  st is the pending metadata (current_name, current_category,
\* current_logo); the result is the pending metadata after the line and, in
\* out, the item appended (if any).
LexStripped(key, st, line) ==
    IF StartsWith(line, <<"#","E","X","T","I","N","F",":">>)
    THEN [name     |-> ExtractName(line),
          category |-> IfMatched(AttrValue(line, <<"g","r","o","u","p","-","t","i","t","l","e","=">>), <<"O","u","t","r","o","s">>),
          logo     |-> AttrValue(line, <<"t","v","g","-","l","o","g","o","=">>),
          out      |-> <<>>]
    ELSE IF StartsWith(line, <<"h","t","t","p">>) /\ Truthy(st.name)
    THEN IF EndsWith(Lower(line), <<".","t","s">>) THEN NoPending
         ELSE IF should_ignore_category(OrOutros(st.category)) THEN NoPending
         ELSE [NoPending EXCEPT !.out =
                  <<MakeItem(key, st.name, OrOutros(st.category), st.logo, line)>>]
    ELSE [name |-> st.name, category |-> st.category, logo |-> st.logo, out |-> <<>>]

LexLine(key, st, rawline) == LexStripped(key, st, Strip(rawline))

(***************************************************************************)
(* Deduplicator, partitioner and index builder (main).                     *)
(***************************************************************************)

\* The page-size bound.  The code sets 5000 (line 381); the model scales it
\* down so that categories above the bound, and a short last page, occur.
MAX_ITEMS_PER_FILE == 2

Urls(its) == {its[i].url : i \in DOMAIN its}

\* Lines 402-411 without the membership test: every item is kept
KeepEverything(all) == [unique |-> all, seen |-> Urls(all), duplicates |-> 0]

\* Lines 405-411: one turn of the loop, from the state prev
DedupStep(prev, item) ==
    IF item.url \notin prev.seen
    THEN [unique     |-> Append(prev.unique, item),
          seen       |-> prev.seen \cup {item.url},
          duplicates |-> prev.duplicates]
    ELSE [prev EXCEPT !.duplicates = prev.duplicates + 1]

\* Lines 402-411: the loop over all_items, from its state after the first
\* n items
RECURSIVE DedupLoop(_, _)
DedupLoop(all, n) ==
    IF n = 0 THEN [unique |-> <<>>, seen |-> {}, duplicates |-> 0]
    ELSE DedupStep(DedupLoop(all, n - 1), all[n])

Reverse(s) == [i \in 1..Len(s) |-> s[Len(s) + 1 - i]]

\* A deduplicator that puts each retained item in front of the earlier ones
NewestFirst(all) ==
    [DedupLoop(all, Len(all)) EXCEPT !.unique = Reverse(@)]

Deduplicated(all) == DedupLoop(all, Len(all))

\* the item all[i] is one the loop of lines 402-411 retained
Retained(all, i) == all[i].url \notin DedupLoop(all, i - 1).seen

\* item.pop('_category') leaves the item without the key
WithoutCategory(item) == [k \in (DOMAIN item) \ {"_category"} |-> item[k]]

\* Lines 420-421: by_category.setdefault(category, []).append(item)
GroupStep(prev, category, item) ==
    IF \E k \in DOMAIN prev : prev[k].category = category
    THEN [k \in DOMAIN prev |->
             IF prev[k].category = category
             THEN [prev[k] EXCEPT !.items = Append(@, item)]
             ELSE prev[k]]
    ELSE Append(prev, [category |-> category, items |-> <<item>>])

\* Lines 418-421: by_category as the dict's (key, value) pairs in insertion
\* order, after the first n items
RECURSIVE GroupLoop(_, _)
GroupLoop(unique, n) ==
    IF n = 0 THEN <<>>
    ELSE GroupStep(GroupLoop(unique, n - 1), unique[n]["_category"],
                   WithoutCategory(unique[n]))

Grouped(unique) == GroupLoop(unique, Len(unique))

IsAdultItem(m) == "isAdult" \in DOMAIN m /\ m.isAdult

IsMovieItem(m) == m.type = "movie" /\ ~IsAdultItem(m)

IsSeriesItem(m) == m.type = "series" /\ ~IsAdultItem(m)

\* Line 433 without `and not m.get('isAdult')`
MoviesWithAdult(items) == SelectSeq(items, LAMBDA m : m.type = "movie")

\* Lines 433-435
MoviesOf(items) == SelectSeq(items, IsMovieItem)

SeriesOf(items) == SelectSeq(items, IsSeriesItem)

AdultOf(items) == SelectSeq(items, IsAdultItem)

TotalItems(items) == Len(MoviesOf(items)) + Len(SeriesOf(items)) + Len(AdultOf(items))

\* Only the pages that are full: the items after the last full page are left out
FullPagesOnly(list) ==
    [p \in 1..(Len(list) \div MAX_ITEMS_PER_FILE) |->
        SubSeq(list, (p - 1) * MAX_ITEMS_PER_FILE + 1, p * MAX_ITEMS_PER_FILE)]

\* Pages whose slices overlap by one item
OverlappingPages(list) ==
    LET n == (Len(list) + MAX_ITEMS_PER_FILE - 1) \div MAX_ITEMS_PER_FILE
    IN  [p \in 1..n |->
            SubSeq(list, IF p = 1 THEN 1 ELSE (p - 1) * MAX_ITEMS_PER_FILE,
                   IF p * MAX_ITEMS_PER_FILE < Len(list)
                   THEN p * MAX_ITEMS_PER_FILE ELSE Len(list))]

\* Lines 447-448: [list[i:i+MAX] for i in range(0, len(list), MAX)]
Pages(list) ==
    LET n == (Len(list) + MAX_ITEMS_PER_FILE - 1) \div MAX_ITEMS_PER_FILE
    IN  [p \in 1..n |->
            SubSeq(list, (p - 1) * MAX_ITEMS_PER_FILE + 1,
                   IF p * MAX_ITEMS_PER_FILE < Len(list)
                   THEN p * MAX_ITEMS_PER_FILE ELSE Len(list))]

Max(a, b) == IF a >= b THEN a ELSE b

JsonFile(name) == name \o <<".","j","s","o","n">>

\* Lines 453-463: the document of one series page and its file
PageWrite(category, items, page_idx) ==
    [file |-> JsonFile(category_to_filename(category) \o <<"_","p">> \o Str(page_idx)),
     data |-> [category   |-> category,
               page       |-> page_idx,
               totalPages |-> Max(Len(Pages(SeriesOf(items))), Len(Pages(MoviesOf(items)))),
               movies     |-> <<>>,
               series     |-> Pages(SeriesOf(items))[page_idx]]]

\* Lines 469-477
MoviesWrite(category, items) ==
    [file |-> JsonFile(category_to_filename(category) \o <<"_","m","o","v","i","e","s">>),
     data |-> [category |-> category, movies |-> MoviesOf(items), series |-> <<>>]]

\* Lines 503-511
CategoryWrite(category, items) ==
    [file |-> JsonFile(category_to_filename(category)),
     data |-> [category |-> category,
               movies   |-> MoviesOf(items),
               series   |-> SeriesOf(items)]]

\* Lines 517-523
AdultWrite(category, items) ==
    [file |-> JsonFile(category_to_filename(category) \o <<"_","a","d","u","l","t">>),
     data |-> [category |-> category, items |-> AdultOf(items)]]

\* Lines 493-500
PlainEntry(category, items) ==
    [id          |-> category_to_filename(category),
     name        |-> category,
     movieCount  |-> Len(MoviesOf(items)),
     seriesCount |-> Len(SeriesOf(items)),
     adultCount  |-> Len(AdultOf(items)),
     totalCount  |-> TotalItems(items)]

\* Lines 481-490
PaginatedEntry(category, items) ==
    PlainEntry(category, items)
    @@ [pages     |-> Max(Len(Pages(SeriesOf(items))), 1),
        hasMovies |-> Len(MoviesOf(items)) > 0]

\* The index left in the order the categories were met
Unsorted(index) == index

\* the entry e put after the n entries of front that are to stay before it
InsertAfter(front, e, n) ==
    SubSeq(front, 1, n) \o <<e>> \o SubSeq(front, n + 1, Len(front))

\* e put behind the entries of front whose totalCount is not smaller
InsertByTotal(front, e) ==
    InsertAfter(front, e,
                Cardinality({i \in DOMAIN front : front[i].totalCount >= e.totalCount}))

\* Line 527: list.sort(key=totalCount, reverse=True); the sort is stable, so
\* entries of equal totalCount keep their order
RECURSIVE SortByTotalDesc(_)
SortByTotalDesc(index) ==
    IF Len(index) = 0 THEN <<>>
    ELSE InsertByTotal(SortByTotalDesc(SubSeq(index, 1, Len(index) - 1)),
                       index[Len(index)])

RECURSIVE SumOf(_, _)
SumOf(index, field) ==
    IF Len(index) = 0 THEN 0 ELSE index[1][field] + SumOf(Tail(index), field)

\* Lines 530-542: the manifest and its file; t is datetime.now()
IndexWrite(sorted, t) ==
    [file |-> JsonFile(<<"i","n","d","e","x">>),
     data |-> [version         |-> 2,
               generatedAt     |-> t,
               totalMovies     |-> SumOf(sorted, "movieCount"),
               totalSeries     |-> SumOf(sorted, "seriesCount"),
               totalAdult      |-> SumOf(sorted, "adultCount"),
               maxItemsPerPage |-> MAX_ITEMS_PER_FILE,
               categories      |-> sorted]]

(***************************************************************************)
(* The inputs of a run: the two playlist files of lines 387-390.  A file   *)
(* is absent or a sequence of lines; the state names a file's content by   *)
(* the pieces it is made of, and PieceLines gives each piece's lines.      *)
(***************************************************************************)

\* The largest number of pieces of a file of the first family of inputs
MaxChunks == 2

\* The largest number of entries of a file of the second family of inputs
MaxEntries == 4

\* The number of string-hash keys an interpreter start may draw
NumHashKeys == 2

\* The number of values datetime.now() may return
NumTimes == 2

HashKeys == 0..(NumHashKeys - 1)

Times == 1..NumTimes

\* Pieces of the first family: entries of every fate, and stray lines
GeneralPieces == {"series", "dup", "adult", "ignored", "ts", "url", "meta"}

\* Pieces of the second family: a series episode, a movie and an adult title
\* of one category, each entry with a URL of its own
PagingPieces == {"S", "M", "A"}

\* Pieces of the third family, one line each: a metadata line with a logo
\* and a category, one with two commas and no attribute, one with no title, a
\* URL line, a URL line of a live stream, and a stream segment that is no URL
LexerPieces == {"metadata", "commas", "nameless", "http", "http.ts", "file.ts"}

\* Pieces of the fourth family: a movie of the category the piece is named
\* after, with a URL of its own.  The categories match two rules, one rule
\* or none, with and without a structural prefix.
SampleCategory ==
    ("Netflix Terror" :> <<"N","e","t","f","l","i","x"," ","T","e","r","r","o","r">>)
    @@ ("Terror" :> <<"T","e","r","r","o","r">>)
    @@ ("Series | Drama" :> <<"S","e","r","i","e","s"," ","|"," ","D","r","a","m","a">>)
    @@ ("Series |" :> <<"S","e","r","i","e","s"," ","|">>)
    @@ ("Kids" :> <<"K","i","d","s">>)
    @@ ("KIDS" :> <<"K","I","D","S">>)
    @@ ("OND / kids -" :> <<"O","N","D"," ","/"," ","k","i","d","s"," ","-">>)
    @@ ("Animação" :> <<"A","n","i","m","a","ç","ã","o">>)
    @@ ("Filmes Animação" :> <<"F","i","l","m","e","s"," ","A","n","i","m","a","ç","ã","o">>)
    @@ ("Dublagem Não Oficial" :> <<"D","u","b","l","a","g","e","m"," ","N","ã","o"," ","O","f","i","c","i","a","l">>)
    @@ ("Index" :> <<"I","n","d","e","x">>)
    @@ ("!!!" :> <<"!","!","!">>)

CategoryPieces == DOMAIN SampleCategory

\* The lines of piece p standing at position i of its file
PieceLines(p, i) ==
    CASE p = "series" ->
            << <<"#","E","X","T","I","N","F",":","-","1"," ","t","v","g","-","l","o","g","o","=","\"","L","\""," ","g","r","o","u","p","-","t","i","t","l","e","=","\"","S","e","r","i","e","s"," ","|"," ","M","a","x","\"",",","A"," ","S","1","E","2">>,
               <<"h","t","t","p",":","/","/","h","/","1">> >>
      [] p = "dup" ->
            << <<"#","E","X","T","I","N","F",":","-","1"," ","g","r","o","u","p","-","t","i","t","l","e","=","\"","T","e","r","r","o","r","\"",",","2"," ","-"," ","B"," ","(","D","U","B",")">>,
               <<" ","h","t","t","p",":","/","/","h","/","1","\r">> >>
      [] p = "adult" ->
            << <<"#","E","X","T","I","N","F",":","-","1"," ","g","r","o","u","p","-","t","i","t","l","e","=","\"","T","e","r","r","o","r","\"",",","C"," ","X","X","X">>,
               <<"h","t","t","p",":","/","/","h","/","2">> >>
      [] p = "ignored" ->
            << <<"#","E","X","T","I","N","F",":","-","1"," ","g","r","o","u","p","-","t","i","t","l","e","=","\"","b","b","b"," ","2","0","2","6","\"",",","D">>,
               <<"h","t","t","p",":","/","/","h","/","1">> >>
      [] p = "ts" ->
            << <<"#","E","X","T","I","N","F",":","-","1"," ","g","r","o","u","p","-","t","i","t","l","e","=","\"","T","e","r","r","o","r","\"",",","E">>,
               <<"h","t","t","p",":","/","/","h","/","3",".","T","S">> >>
      [] p = "url" ->
            << <<"h","t","t","p",":","/","/","h","/","3">> >>
      [] p = "meta" ->
            << <<"#","E","X","T","I","N","F",":","-","1",",","F">> >>
      [] p = "metadata" ->
            << <<"#","E","X","T","I","N","F",":","-","1"," ","t","v","g","-","l","o","g","o","=","\"","L","\""," ","g","r","o","u","p","-","t","i","t","l","e","=","\"","T","e","r","r","o","r","\"",",","A">> >>
      [] p = "commas" ->
            << <<"#","E","X","T","I","N","F",":","-","1",",","B",","," ","C",","," ","D">> >>
      [] p = "nameless" ->
            << <<"#","E","X","T","I","N","F",":","-","1"," ","g","r","o","u","p","-","t","i","t","l","e","=","\"","D","r","a","m","a","\"">> >>
      [] p = "http" ->
            << <<"h","t","t","p",":","/","/","h","/","1">> >>
      [] p = "http.ts" ->
            << <<" ","h","t","t","p",":","/","/","h","/","3",".","T","S","\r">> >>
      [] p = "file.ts" ->
            << <<"s","e","g","/","3",".","t","s">> >>
      [] p \in CategoryPieces ->
            << <<"#","E","X","T","I","N","F",":","-","1"," ","g","r","o","u","p","-","t","i","t","l","e","=","\"">> \o SampleCategory[p] \o <<"\"",",","B">>,
               <<"h","t","t","p",":","/","/","h","/">> \o Str(i) >>
      [] p = "S" ->
            << <<"#","E","X","T","I","N","F",":","-","1"," ","g","r","o","u","p","-","t","i","t","l","e","=","\"","T","e","r","r","o","r","\"",",","A"," ","S","1","E">> \o Str(i),
               <<"h","t","t","p",":","/","/","h","/">> \o Str(i) >>
      [] p = "M" ->
            << <<"#","E","X","T","I","N","F",":","-","1"," ","g","r","o","u","p","-","t","i","t","l","e","=","\"","T","e","r","r","o","r","\"",",","B">>,
               <<"h","t","t","p",":","/","/","h","/">> \o Str(i) >>
      [] p = "A" ->
            << <<"#","E","X","T","I","N","F",":","-","1"," ","g","r","o","u","p","-","t","i","t","l","e","=","\"","T","e","r","r","o","r","\"",",","C"," ","X","X","X">>,
               <<"h","t","t","p",":","/","/","h","/">> \o Str(i) >>

SeqsUpTo(S, n) == UNION {[1..k -> S] : k \in 0..n}

Absent == [exists |-> FALSE, pieces |-> <<>>]

Present(pieces) == [exists |-> TRUE, pieces |-> pieces]

GeneralInputs ==
    {<<f1, f2>> : f1 \in {Absent} \cup {Present(ps) : ps \in SeqsUpTo(GeneralPieces, MaxChunks)},
                  f2 \in {Absent, Present(<<"dup", "adult">>)}}

PagingInputs ==
    {<<Present(ps), Absent>> : ps \in SeqsUpTo(PagingPieces, MaxEntries)}

Inputs == GeneralInputs \cup PagingInputs

RECURSIVE LinesOfPieces(_, _)
LinesOfPieces(pieces, n) ==
    IF n = 0 THEN <<>> ELSE LinesOfPieces(pieces, n - 1) \o PieceLines(pieces[n], n)

\* content.split('\n') of a file that exists
FileLines(f) == LinesOfPieces(f.pieces, Len(f.pieces))

(***************************************************************************)
(* The state of a run.                                                     *)
(***************************************************************************)
VARIABLES
    input,             \* the two playlist files (m3u8_files), unchanged by a run
    hash_key,          \* the interpreter's string-hash key of this process
    run,               \* 1 in the first run over the input, 2 in a repeated run
    prev_writes,       \* the files the previous run wrote (empty in the first)
    pc,                \* the position of main
    file_idx,          \* the index of the file being parsed
    line_idx,          \* the number of lines of that file already read
    current_name,      \* the lexer's pending metadata
    current_category,
    current_logo,
    items,             \* parse_m3u8_file's items of the file being parsed
    all_items,
    seen_urls,
    unique_items,
    duplicates,
    by_category,       \* the dict as (category, items) pairs in insertion order
    cat_idx,           \* the position of the loop of line 429 in by_category
    page_idx,
    category_index,
    total_saved,
    writes             \* the files written so far by this run, in order

vars ==
    <<input, hash_key, run, prev_writes, pc, file_idx, line_idx, current_name,
      current_category, current_logo, items, all_items, seen_urls, unique_items,
      duplicates, by_category, cat_idx, page_idx, category_index, total_saved,
      writes>>

\* everything a run of main starts from
Fresh ==
    /\ pc = "parse"
    /\ file_idx = 1
    /\ line_idx = 0
    /\ current_name = None
    /\ current_category = None
    /\ current_logo = None
    /\ items = <<>>
    /\ all_items = <<>>
    /\ seen_urls = {}
    /\ unique_items = <<>>
    /\ duplicates = 0
    /\ by_category = <<>>
    /\ cat_idx = 0
    /\ page_idx = 0
    /\ category_index = <<>>
    /\ total_saved = 0
    /\ writes = <<>>

Init ==
    /\ input \in Inputs
    /\ hash_key \in HashKeys
    /\ run = 1
    /\ prev_writes = <<>>
    /\ Fresh

(***************************************************************************)
(* The steps of main.                                                      *)
(***************************************************************************)

NumFiles == Len(input)

\* where main goes after the file file_idx: the next file, or line 402
AfterFile(f) == IF f < NumFiles THEN "parse" ELSE "dedup"

\* Lines 398-399: the file does not exist, a warning is printed
SkipMissingFile ==
    /\ pc = "parse"
    /\ ~input[file_idx].exists
    /\ pc' = AfterFile(file_idx)
    /\ file_idx' = IF file_idx < NumFiles THEN file_idx + 1 ELSE file_idx
    /\ UNCHANGED <<input, hash_key, run, prev_writes, line_idx, current_name,
                   current_category, current_logo, items, all_items, seen_urls,
                   unique_items, duplicates, by_category, cat_idx, page_idx,
                   category_index, total_saved, writes>>

Pending ==
    [name |-> current_name, category |-> current_category, logo |-> current_logo,
     out |-> <<>>]

\* the lexer's variables after a line whose turn of the loop gave r
Lexed(r) ==
    /\ current_name' = r.name
    /\ current_category' = r.category
    /\ current_logo' = r.logo
    /\ items' = items \o r.out

\* Lines 299-364: the next line of the file being parsed
ReadLine ==
    /\ pc = "parse"
    /\ input[file_idx].exists
    /\ line_idx < Len(FileLines(input[file_idx]))
    /\ Lexed(LexLine(hash_key, Pending, FileLines(input[file_idx])[line_idx + 1]))
    /\ line_idx' = line_idx + 1
    /\ UNCHANGED <<input, hash_key, run, prev_writes, pc, file_idx, all_items,
                   seen_urls, unique_items, duplicates, by_category, cat_idx,
                   page_idx, category_index, total_saved, writes>>

\* Lines 366 and 397: the file is read to its end, all_items.extend(items)
EndOfFile ==
    /\ pc = "parse"
    /\ input[file_idx].exists
    /\ line_idx = Len(FileLines(input[file_idx]))
    /\ all_items' = all_items \o items
    /\ items' = <<>>
    /\ line_idx' = 0
    /\ current_name' = None
    /\ current_category' = None
    /\ current_logo' = None
    /\ pc' = AfterFile(file_idx)
    /\ file_idx' = IF file_idx < NumFiles THEN file_idx + 1 ELSE file_idx
    /\ UNCHANGED <<input, hash_key, run, prev_writes, seen_urls, unique_items,
                   duplicates, by_category, cat_idx, page_idx, category_index,
                   total_saved, writes>>

\* Lines 402-411
Deduplicate ==
    /\ pc = "dedup"
    /\ LET d == Deduplicated(all_items)
       IN  /\ unique_items' = d.unique
           /\ seen_urls' = d.seen
           /\ duplicates' = d.duplicates
    /\ pc' = "group"
    /\ UNCHANGED <<input, hash_key, run, prev_writes, file_idx, line_idx,
                   current_name, current_category, current_logo, items, all_items,
                   by_category, cat_idx, page_idx, category_index, total_saved,
                   writes>>

\* Lines 418-427; the loop of line 429 starts at the first category, if any.
\* The items of unique_items are the very dicts all_items holds, so the pop
\* of line 420 removes the key from the retained items of all_items too.
GroupByCategory ==
    /\ pc = "group"
    /\ by_category' = Grouped(unique_items)
    /\ unique_items' = [i \in DOMAIN unique_items |-> WithoutCategory(unique_items[i])]
    /\ all_items' = [i \in DOMAIN all_items |->
                        IF Retained(all_items, i)
                        THEN WithoutCategory(all_items[i]) ELSE all_items[i]]
    /\ cat_idx' = IF Len(Grouped(unique_items)) > 0 THEN 1 ELSE 0
    /\ pc' = IF Len(Grouped(unique_items)) > 0 THEN "category" ELSE "index"
    /\ UNCHANGED <<input, hash_key, run, prev_writes, file_idx, line_idx,
                   current_name, current_category, current_logo, items, seen_urls,
                   duplicates, page_idx, category_index, total_saved, writes>>

Category == by_category[cat_idx].category

Items == by_category[cat_idx].items

\* the position after the body of the loop of line 429: the next category, or
\* line 527
AfterCategory ==
    IF cat_idx < Len(by_category)
    THEN [pc |-> "category", cat_idx |-> cat_idx + 1]
    ELSE [pc |-> "index", cat_idx |-> cat_idx]

\* the position at line 516: the adult file if there are adult items
AtAdult ==
    IF Len(AdultOf(Items)) > 0
    THEN [pc |-> "adult", cat_idx |-> cat_idx]
    ELSE AfterCategory

\* the position at line 468, after the pages: the movies file if there are
\* movies, else the index entry of line 481 and on to line 516
AfterPages ==
    IF Len(MoviesOf(Items)) > 0
    THEN [pc |-> "movies", cat_idx |-> cat_idx, entry |-> <<>>]
    ELSE [pc |-> AtAdult.pc, cat_idx |-> AtAdult.cat_idx,
          entry |-> <<PaginatedEntry(Category, Items)>>]

\* Lines 429-451 and 493-509: the head of the loop body, up to the first
\* file the category writes
EnterCategory ==
    /\ pc = "category"
    /\ total_saved' = total_saved + TotalItems(Items)
    /\ IF TotalItems(Items) > MAX_ITEMS_PER_FILE
       THEN IF Len(Pages(SeriesOf(Items))) > 0
            THEN /\ pc' = "pages"
                 /\ page_idx' = 1
                 /\ UNCHANGED <<cat_idx, category_index>>
            ELSE /\ pc' = AfterPages.pc
                 /\ cat_idx' = AfterPages.cat_idx
                 /\ page_idx' = 1
                 /\ category_index' = category_index \o AfterPages.entry
       ELSE /\ pc' = "single"
            /\ category_index' = Append(category_index, PlainEntry(Category, Items))
            /\ UNCHANGED <<cat_idx, page_idx>>
    /\ UNCHANGED <<input, hash_key, run, prev_writes, file_idx, line_idx,
                   current_name, current_category, current_logo, items, all_items,
                   seen_urls, unique_items, duplicates, by_category, writes>>

\* Lines 452-465: one page file; after the last page, on to line 468
WritePage ==
    /\ pc = "pages"
    /\ writes' = Append(writes, PageWrite(Category, Items, page_idx))
    /\ page_idx' = page_idx + 1
    /\ IF page_idx < Len(Pages(SeriesOf(Items)))
       THEN UNCHANGED <<pc, cat_idx, category_index>>
       ELSE /\ pc' = AfterPages.pc
            /\ cat_idx' = AfterPages.cat_idx
            /\ category_index' = category_index \o AfterPages.entry
    /\ UNCHANGED <<input, hash_key, run, prev_writes, file_idx, line_idx,
                   current_name, current_category, current_logo, items, all_items,
                   seen_urls, unique_items, duplicates, by_category, total_saved>>

\* Lines 468-490: the movies file, then the index entry
WriteMovies ==
    /\ pc = "movies"
    /\ writes' = Append(writes, MoviesWrite(Category, Items))
    /\ category_index' = Append(category_index, PaginatedEntry(Category, Items))
    /\ pc' = AtAdult.pc
    /\ cat_idx' = AtAdult.cat_idx
    /\ UNCHANGED <<input, hash_key, run, prev_writes, file_idx, line_idx,
                   current_name, current_category, current_logo, items, all_items,
                   seen_urls, unique_items, duplicates, by_category, page_idx,
                   total_saved>>

\* Lines 509-513: the file of a category within the bound
WriteCategory ==
    /\ pc = "single"
    /\ writes' = Append(writes, CategoryWrite(Category, Items))
    /\ pc' = AtAdult.pc
    /\ cat_idx' = AtAdult.cat_idx
    /\ UNCHANGED <<input, hash_key, run, prev_writes, file_idx, line_idx,
                   current_name, current_category, current_logo, items, all_items,
                   seen_urls, unique_items, duplicates, by_category, page_idx,
                   category_index, total_saved>>

\* Lines 516-524
WriteAdult ==
    /\ pc = "adult"
    /\ writes' = Append(writes, AdultWrite(Category, Items))
    /\ pc' = AfterCategory.pc
    /\ cat_idx' = AfterCategory.cat_idx
    /\ UNCHANGED <<input, hash_key, run, prev_writes, file_idx, line_idx,
                   current_name, current_category, current_logo, items, all_items,
                   seen_urls, unique_items, duplicates, by_category, page_idx,
                   category_index, total_saved>>

\* Lines 527-542: the sort, the manifest and its file
WriteIndex ==
    /\ pc = "index"
    /\ \E t \in Times :
          writes' = Append(writes, IndexWrite(SortByTotalDesc(category_index), t))
    /\ category_index' = SortByTotalDesc(category_index)
    /\ pc' = "done"
    /\ UNCHANGED <<input, hash_key, run, prev_writes, file_idx, line_idx,
                   current_name, current_category, current_logo, items, all_items,
                   seen_urls, unique_items, duplicates, by_category, cat_idx,
                   page_idx, total_saved>>

\* main at an open(..., 'w') or json.dump
AtWrite == pc \in {"pages", "movies", "single", "adult", "index"}

\* A failed write is swallowed and main goes on past the file
ContinueAfterFailure ==
    /\ pc \in {"single", "adult"}
    /\ pc' = IF pc = "single" THEN AtAdult.pc ELSE AfterCategory.pc
    /\ cat_idx' = IF pc = "single" THEN AtAdult.cat_idx ELSE AfterCategory.cat_idx
    /\ UNCHANGED <<input, hash_key, run, prev_writes, file_idx, line_idx,
                   current_name, current_category, current_logo, items, all_items,
                   seen_urls, unique_items, duplicates, by_category, page_idx,
                   category_index, total_saved, writes>>

\* Lines 462, 476, 510, 522, 541: the file cannot be written; the OSError is
\* caught nowhere and ends the process
WriteFailure ==
    /\ AtWrite
    /\ pc' = "aborted"
    /\ UNCHANGED <<input, hash_key, run, prev_writes, file_idx, line_idx,
                   current_name, current_category, current_logo, items, all_items,
                   seen_urls, unique_items, duplicates, by_category, cat_idx,
                   page_idx, category_index, total_saved, writes>>

\* The script is started again on the same files, in a new interpreter
Rerun ==
    /\ pc = "done"
    /\ run = 1
    /\ run' = 2
    /\ prev_writes' = writes
    /\ hash_key' \in HashKeys
    /\ pc' = "parse"
    /\ file_idx' = 1
    /\ line_idx' = 0
    /\ current_name' = None
    /\ current_category' = None
    /\ current_logo' = None
    /\ items' = <<>>
    /\ all_items' = <<>>
    /\ seen_urls' = {}
    /\ unique_items' = <<>>
    /\ duplicates' = 0
    /\ by_category' = <<>>
    /\ cat_idx' = 0
    /\ page_idx' = 0
    /\ category_index' = <<>>
    /\ total_saved' = 0
    /\ writes' = <<>>
    /\ UNCHANGED input

Next ==
    \/ SkipMissingFile
    \/ ReadLine
    \/ EndOfFile
    \/ Deduplicate
    \/ GroupByCategory
    \/ EnterCategory
    \/ WritePage
    \/ WriteMovies
    \/ WriteCategory
    \/ WriteAdult
    \/ WriteIndex
    \/ WriteFailure

Spec == Init /\ [][Next]_vars


(***************************************************************************)
(* Two runs of the script over the same files, each in an interpreter of   *)
(* its own: the second starts when the first is done, and keeps the files  *)
(* the first wrote for comparison.                                         *)
(***************************************************************************)

\* The largest number of entries of the file a repeated run reads
MaxRerunEntries == 3

RerunInputs ==
    {<<Present(ps), Absent>> : ps \in SeqsUpTo(PagingPieces, MaxRerunEntries)}

InitRerun ==
    /\ input \in RerunInputs
    /\ hash_key \in HashKeys
    /\ run = 1
    /\ prev_writes = <<>>
    /\ Fresh

NextRerun ==
    \/ Next
    \/ Rerun

SpecRerun == InitRerun /\ [][NextRerun]_vars

(***************************************************************************)
(* The parsing of a playlist of arbitrary lines (lines 393-399): main up   *)
(* to the point where all_items is complete.                               *)
(***************************************************************************)

\* The largest number of lines of the file the lexer reads
MaxLines == 4

\* a file of up to MaxLines lines of the third family, alone or followed by
\* a second file that starts with a URL line
LexerInputs ==
    {<<Present(ps), f2>> : ps \in SeqsUpTo(LexerPieces, MaxLines),
                           f2 \in {Absent}}
    \cup {<<Present(<<"metadata">>), Present(<<"http">>)>>}

InitLexer ==
    /\ input \in LexerInputs
    /\ hash_key = 0
    /\ run = 1
    /\ prev_writes = <<>>
    /\ Fresh

NextLexer ==
    \/ SkipMissingFile
    \/ ReadLine
    \/ EndOfFile

SpecLexer == InitLexer /\ [][NextLexer]_vars

(***************************************************************************)
(* Runs over playlists whose entries differ in their category.             *)
(***************************************************************************)

\* The largest number of entries of a file of the fourth family
MaxCategories == 2

\* a file of up to MaxCategories movies of sample categories; and one file
\* with a category above the page bound
CategoryInputs ==
    {<<Present(ps), Absent>> : ps \in SeqsUpTo(CategoryPieces, MaxCategories)}
    \cup {<<Present(<<"S", "M", "M", "A">>), Absent>>}

InitCategories ==
    /\ input \in CategoryInputs
    /\ hash_key = 0
    /\ run = 1
    /\ prev_writes = <<>>
    /\ Fresh

SpecCategories == InitCategories /\ [][Next]_vars

(***************************************************************************)
(* What the properties speak of: the CatalogItems of the written           *)
(* documents, and the entries of the playlists as the format defines them. *)
(***************************************************************************)

\* the lists of CatalogItems of one document, one after the other
ListsOf(data) ==
    (IF "movies" \in DOMAIN data THEN data.movies ELSE <<>>)
    \o (IF "series" \in DOMAIN data THEN data.series ELSE <<>>)
    \o (IF "items" \in DOMAIN data THEN data.items ELSE <<>>)

RECURSIVE EmittedIn(_)
EmittedIn(ws) ==
    IF Len(ws) = 0 THEN <<>> ELSE ListsOf(ws[1].data) \o EmittedIn(Tail(ws))

\* every CatalogItem of every document this run has written
Emitted == EmittedIn(writes)

Holds(list, url) == \E i \in DOMAIN list : list[i].url = url

FlaggedAdult(m) == "isAdult" \in DOMAIN m /\ m.isAdult = TRUE

\* The entries of a playlist: a metadata line sets the pending name and
\* category, a URL line with a pending name ends an entry (none for a `.ts`
\* URL) and empties the pending metadata, any other line is skipped.
\* EntriesFrom is the entry list once the lines from the n-th on are read,
\* given the pending metadata and the entries before that line.
RECURSIVE EntriesFrom(_, _, _, _, _)
EntriesAfter(lines, n, line, name, category, entries) ==
    IF StartsWith(line, <<"#","E","X","T","I","N","F",":">>)
    THEN EntriesFrom(lines, n + 1, ExtractName(line),
                     IfMatched(AttrValue(line, <<"g","r","o","u","p","-","t","i","t","l","e","=">>), <<"O","u","t","r","o","s">>), entries)
    ELSE IF StartsWith(line, <<"h","t","t","p">>) /\ Truthy(name)
    THEN EntriesFrom(lines, n + 1, None, None,
                     IF EndsWith(Lower(line), <<".","t","s">>) THEN entries
                     ELSE Append(entries, [name     |-> name,
                                           category |-> OrOutros(category),
                                           url      |-> line]))
    ELSE EntriesFrom(lines, n + 1, name, category, entries)

EntriesFrom(lines, n, name, category, entries) ==
    IF n > Len(lines) THEN entries
    ELSE EntriesAfter(lines, n, Strip(lines[n]), name, category, entries)

EntriesOfFile(f) ==
    IF f.exists THEN EntriesFrom(FileLines(f), 1, None, None, <<>>) ELSE <<>>

RECURSIVE EntriesOfFiles(_, _)
EntriesOfFiles(files, n) ==
    IF n = 0 THEN <<>> ELSE EntriesOfFiles(files, n - 1) \o EntriesOfFile(files[n])

\* the entries of the run's input, files in configured order
InputEntries == EntriesOfFiles(input, Len(input))

IgnoredLowered == [k \in DOMAIN IGNORED_CATEGORIES |-> Lower(IGNORED_CATEGORIES[k])]

MatchesLowered(category, lowered) ==
    \E k \in DOMAIN IGNORED_CATEGORIES :
        \/ category = IGNORED_CATEGORIES[k]
        \/ lowered = IgnoredLowered[k]
        \/ StartsWith(lowered, IgnoredLowered[k])

\* the category equals an ignored category, or equals it but for case, or
\* starts with it but for case
MatchesIgnoreList(category) == MatchesLowered(category, Lower(category))

IsIgnoredEntry(e) == MatchesIgnoreList(e.category)

IsSurvivor(e) == ~MatchesIgnoreList(e.category)

\* the entries that pass the ignore-list filter
Survivors == SelectSeq(InputEntries, IsSurvivor)

UrlsOf(entries) == {entries[i].url : i \in DOMAIN entries}

\* the i-th of the entries is the first with its url: it is no url duplicate
FirstWithUrl(entries, i) == \A j \in 1..(i - 1) : entries[j].url # entries[i].url

\* main is past the parsing of the files, with all_items complete
Parsed == pc # "parse"

\* by_category has just been built / is built
JustGrouped == pc = "category" /\ cat_idx = 1

GroupsBuilt == pc \notin {"parse", "dedup", "group"}

\* the url is in the movies / series / adult list of the k-th category group
InMovies(k, url) == Holds(MoviesOf(by_category[k].items), url)

InSeries(k, url) == Holds(SeriesOf(by_category[k].items), url)

InAdult(k, url) == Holds(AdultOf(by_category[k].items), url)

Elems(s) == {s[i] : i \in DOMAIN s}

RECURSIVE Flatten(_)
Flatten(ss) == IF Len(ss) = 0 THEN <<>> ELSE ss[1] \o Flatten(Tail(ss))

(***************************************************************************)
(* C1                                                                      *)
(***************************************************************************)

\* C1: no two CatalogItems of the documents the run has written (category,
\* page, movies and adult documents taken together) have the same url.
C1_UrlsUnique ==
    \A i, j \in DOMAIN Emitted : i # j => Emitted[i].url # Emitted[j].url

\* a finished run that dropped a url duplicate and wrote items to two
\* documents or more
C1_Witness ==
    /\ pc = "done"
    /\ duplicates > 0
    /\ Len(Emitted) >= 2
    /\ Len(writes) >= 3

(***************************************************************************)
(* C2                                                                      *)
(***************************************************************************)

\* the items the lexer yields for a file: out is the items of the lines
\* before the n-th, st the pending metadata there
RECURSIVE LexedFrom(_, _, _, _, _)
LexedAfter(key, lines, n, r, out) ==
    LexedFrom(key, lines, n + 1, [r EXCEPT !.out = <<>>], out \o r.out)

LexedFrom(key, lines, n, st, out) ==
    IF n > Len(lines) THEN out
    ELSE LexedAfter(key, lines, n, LexLine(key, st, lines[n]), out)

ParsedOfFile(key, f) ==
    IF f.exists THEN LexedFrom(key, FileLines(f), 1, NoPending, <<>>) ELSE <<>>

\* the parsed entries: files in configured order, lines in file order
RECURSIVE ParsedOfFiles(_, _, _)
ParsedOfFiles(key, files, n) ==
    IF n = 0 THEN <<>>
    ELSE ParsedOfFiles(key, files, n - 1) \o ParsedOfFile(key, files[n])

FirstOfItsUrl(s, i) == \A j \in 1..(i - 1) : s[j].url # s[i].url

\* the subsequence of the first n items of s that are the first of their url
RECURSIVE FirstOccurrences(_, _)
FirstOccurrences(s, n) ==
    IF n = 0 THEN <<>>
    ELSE IF FirstOfItsUrl(s, n) THEN Append(FirstOccurrences(s, n - 1), s[n])
    ELSE FirstOccurrences(s, n - 1)

\* C2: when the deduplicator is done, the retained sequence is the
\* subsequence of the parsed entries (files in configured order, lines in
\* file order) made of the first occurrence of each url, in that order, and
\* every other entry was counted as a duplicate.
C2_FirstOccurrencesKept ==
    pc = "group" =>
        /\ all_items = ParsedOfFiles(hash_key, input, Len(input))
        /\ unique_items = FirstOccurrences(all_items, Len(all_items))
        /\ duplicates = Len(all_items) - Len(unique_items)
        /\ seen_urls = Urls(all_items)

\* the deduplicator is done, an entry was dropped and a later one retained
C2_Witness ==
    /\ pc = "group"
    /\ duplicates >= 1
    /\ Len(unique_items) >= 2
    /\ \E i, j \in DOMAIN all_items :
          i < j /\ ~FirstOfItsUrl(all_items, i) /\ FirstOfItsUrl(all_items, j)

(***************************************************************************)
(* C3, C4: two runs over the same input                                    *)
(***************************************************************************)

\* C3: every CatalogItem's id is non-empty, and a repeated run over the same
\* input gives a (cleaned name, url) pair the id the first run gave it.
C3_IdsRepeat ==
    /\ \A i \in DOMAIN Emitted : Len(Emitted[i].id) > 0
    /\ run = 2 =>
          \A i \in DOMAIN Emitted, j \in DOMAIN EmittedIn(prev_writes) :
              (/\ Emitted[i].name = EmittedIn(prev_writes)[j].name
               /\ Emitted[i].url = EmittedIn(prev_writes)[j].url)
              => Emitted[i].id = EmittedIn(prev_writes)[j].id

\* C4: a repeated run over the same input writes the documents the first
\* run wrote: the same files in the same order, each with the same content.
C4_OutputsRepeat ==
    (run = 2 /\ pc = "done") => writes = prev_writes

(***************************************************************************)
(* C5                                                                      *)
(***************************************************************************)

\* the parsed items are the entries of sv one for one, and the urls seen,
\* the urls written and the counts are those of sv
OnlySurvivorsCount(sv) ==
    /\ Len(all_items) = Len(sv)
    /\ \A i \in DOMAIN all_items : all_items[i].url = sv[i].url
    /\ seen_urls \subseteq UrlsOf(sv)
    /\ Urls(Emitted) \subseteq UrlsOf(sv)
    /\ pc = "done" =>
          /\ Len(unique_items) + duplicates = Len(sv)
          /\ SumOf(category_index, "totalCount") + duplicates = Len(sv)
          /\ writes[Len(writes)].data.totalMovies
                + writes[Len(writes)].data.totalSeries
                + writes[Len(writes)].data.totalAdult
                + duplicates = Len(sv)

\* nothing is seen, retained, counted or written that is not in all_items
OnlyParsedCount ==
    /\ seen_urls \subseteq Urls(all_items)
    /\ Urls(unique_items) \subseteq seen_urls
    /\ Urls(Emitted) \subseteq Urls(unique_items)
    /\ pc \notin {"parse", "dedup"} =>
          Len(unique_items) + duplicates = Len(all_items)
    /\ total_saved <= Len(unique_items)

\* C5: an entry whose category matches the ignore list leaves no trace.
\* When the files are parsed, and when the run ends, the parsed items are
\* the surviving entries one for one, every url seen by the deduplicator and
\* every url of a written document is a survivor's, and the counts of the
\* index and the duplicate count add up to the number of surviving entries;
\* in between, nothing is seen, retained, counted or written that is not
\* among the parsed items.
C5_IgnoredDiscarded ==
    /\ OnlyParsedCount
    /\ pc \in {"dedup", "done", "aborted"} => OnlySurvivorsCount(Survivors)

\* TRUE for an entry that matches the ignore list by prefix and case only
\* and whose url the deduplicator has not seen
IgnoredUnseen(e) ==
    /\ IsIgnoredEntry(e)
    /\ \A k \in DOMAIN IGNORED_CATEGORIES : e.category # IGNORED_CATEGORIES[k]
    /\ e.url \notin seen_urls

\* a finished run whose input has an entry that matches the ignore list by
\* prefix and case only, with a url no survivor has, and survivors besides
C5_Witness ==
    /\ pc = "done"
    /\ Len(unique_items) > 0
    /\ Len(SelectSeq(InputEntries, IgnoredUnseen)) > 0

(***************************************************************************)
(* C6                                                                      *)
(***************************************************************************)

\* the document w is the adult side document of the k-th category group
AdultDocOf(w, k) ==
    /\ "items" \in DOMAIN w.data
    /\ w.data.category = by_category[k].category
    /\ w.file = JsonFile(category_to_filename(by_category[k].category) \o <<"_","a","d","u","l","t">>)

\* C6: no movies or series list of a written document holds an item flagged
\* adult; a retained adult item is written to the adult side document of its
\* category group and to no other document; the movies, series and adult
\* lists of a category group are pairwise disjoint.
C6_AdultApart ==
    /\ \A i \in DOMAIN writes :
          /\ "movies" \in DOMAIN writes[i].data =>
                \A m \in Elems(writes[i].data.movies) : ~FlaggedAdult(m)
          /\ "series" \in DOMAIN writes[i].data =>
                \A m \in Elems(writes[i].data.series) : ~FlaggedAdult(m)
    /\ \A k \in DOMAIN by_category :
          \A m \in Elems(by_category[k].items) :
              FlaggedAdult(m) =>
                  /\ \A i \in DOMAIN writes :
                        m \in Elems(ListsOf(writes[i].data)) =>
                            /\ AdultDocOf(writes[i], k)
                            /\ m \in Elems(writes[i].data.items)
                  /\ pc = "done" =>
                        \E i \in DOMAIN writes :
                            /\ AdultDocOf(writes[i], k)
                            /\ m \in Elems(writes[i].data.items)
    /\ \A k \in DOMAIN by_category :
          /\ Elems(MoviesOf(by_category[k].items))
                \cap Elems(SeriesOf(by_category[k].items)) = {}
          /\ Elems(MoviesOf(by_category[k].items))
                \cap Elems(AdultOf(by_category[k].items)) = {}
          /\ Elems(SeriesOf(by_category[k].items))
                \cap Elems(AdultOf(by_category[k].items)) = {}

\* a finished run with a category that has an adult movie in its adult
\* document and another movie in its category document
C6_Witness ==
    /\ pc = "done"
    /\ \E i, j \in DOMAIN writes :
          /\ "items" \in DOMAIN writes[i].data
          /\ \E m \in Elems(writes[i].data.items) : m.type = "movie"
          /\ "movies" \in DOMAIN writes[j].data
          /\ writes[j].data.category = writes[i].data.category
          /\ Len(writes[j].data.movies) > 0

(***************************************************************************)
(* C7                                                                      *)
(***************************************************************************)

\* every entry of sv became an item, typed movie or series
AllTyped(sv) ==
    /\ Len(all_items) = Len(sv)
    /\ \A i \in DOMAIN all_items :
          /\ all_items[i].url = sv[i].url
          /\ all_items[i].type \in {"movie", "series"}

\* the k-th category group is the one of the category
GroupOfCategory(k, category) == by_category[k].category = category

\* the number of the three lists of the k-th group that hold the url
ListsHolding(k, url) ==
    (IF InMovies(k, url) THEN 1 ELSE 0)
    + (IF InSeries(k, url) THEN 1 ELSE 0)
    + (IF InAdult(k, url) THEN 1 ELSE 0)

\* the entry of the url and the canonical category is in the movies or the
\* series of the group of its category
InMoviesOrSeries(url, category) ==
    \E k \in DOMAIN by_category :
        /\ GroupOfCategory(k, category)
        /\ InMovies(k, url) \/ InSeries(k, url)

\* the entry of the url and the canonical category is in exactly one list of
\* the group of its category and in no list of another group: the adult
\* list when flagged adult, else the list of its type
InOneList(url, category) ==
    /\ \E k \in DOMAIN by_category : GroupOfCategory(k, category)
    /\ \A k \in DOMAIN by_category :
          IF GroupOfCategory(k, category)
          THEN /\ ListsHolding(k, url) = 1
               /\ \A m \in Elems(by_category[k].items) :
                     m.url = url =>
                         IF FlaggedAdult(m) THEN InAdult(k, url)
                         ELSE IF m.type = "movie" THEN InMovies(k, url)
                         ELSE InSeries(k, url)
          ELSE ListsHolding(k, url) = 0

AllInMoviesOrSeries(sv) ==
    \A i \in DOMAIN sv :
        FirstWithUrl(sv, i) =>
            InMoviesOrSeries(sv[i].url, normalize_category(sv[i].category))

AllInOneList(sv) ==
    \A i \in DOMAIN sv :
        FirstWithUrl(sv, i) =>
            InOneList(sv[i].url, normalize_category(sv[i].category))

\* every retained item is in one category group, in one of its three lists
RetainedInOneList ==
    \A i \in DOMAIN unique_items :
        /\ Cardinality({k \in DOMAIN by_category :
                           Holds(by_category[k].items, unique_items[i].url)}) = 1
        /\ \A k \in DOMAIN by_category :
              Holds(by_category[k].items, unique_items[i].url) =>
                  ListsHolding(k, unique_items[i].url) = 1

\* C7 as stated: every surviving entry is typed movie or series (seen when
\* the files are parsed), and unless it is a url duplicate it is in the
\* movies or the series of its category (seen when the groups are built and
\* when the run is done).
C7_InMoviesOrSeries ==
    /\ pc = "dedup" => AllTyped(Survivors)
    /\ (JustGrouped \/ pc = "done") => AllInMoviesOrSeries(Survivors)

\* C7, amended: every surviving entry is typed movie or series (seen when
\* the files are parsed), and unless it is a url duplicate it is in exactly
\* one list of its category group and in no list of another group: the
\* adult list when it is flagged adult, else the movies when typed movie
\* and the series when typed series (seen when the groups are built and
\* when the run is done; in between every retained item stays in one list
\* of one group).
C7_InOneListOfItsCategory ==
    /\ pc = "dedup" => AllTyped(Survivors)
    /\ (JustGrouped \/ pc = "done") => AllInOneList(Survivors)
    /\ GroupsBuilt => RetainedInOneList

\* a finished run with a survivor in an adult list, one in a movies list
\* and one in a series list
C7_Witness ==
    /\ pc = "done"
    /\ \E k \in DOMAIN by_category : Len(AdultOf(by_category[k].items)) > 0
    /\ \E k \in DOMAIN by_category : Len(MoviesOf(by_category[k].items)) > 0
    /\ \E k \in DOMAIN by_category : Len(SeriesOf(by_category[k].items)) > 0

(***************************************************************************)
(* C8                                                                      *)
(***************************************************************************)

IsPageOf(w, category) == "page" \in DOMAIN w.data /\ w.data.category = category

\* the page documents of a category, in the order they were written
PageDocs(category) == SelectSeq(writes, LAMBDA w : IsPageOf(w, category))

DocsNamed(file) == SelectSeq(writes, LAMBDA w : w.file = file)

Slug(k) == category_to_filename(by_category[k].category)

\* the page documents are the pages of the series list, cut at the bound
PagesOf(docs, slug, series) ==
    /\ \A p \in DOMAIN docs :
          /\ docs[p].data.page = p
          /\ docs[p].file = JsonFile(slug \o <<"_","p">> \o Str(p))
          /\ docs[p].data.movies = <<>>
          /\ Len(docs[p].data.series) >= 1
          /\ Len(docs[p].data.series) <= MAX_ITEMS_PER_FILE
          /\ p < Len(docs) => Len(docs[p].data.series) = MAX_ITEMS_PER_FILE
    /\ Flatten([p \in DOMAIN docs |-> docs[p].data.series]) = series

\* the movies documents are the one document of the movies, or none
MoviesIn(docs, movies) ==
    IF Len(movies) > 0
    THEN /\ Len(docs) = 1
         /\ docs[1].data.movies = movies
         /\ docs[1].data.series = <<>>
    ELSE Len(docs) = 0

\* C8: in a finished run, a category group with more items (movies, series
\* and adult together) than the page bound has its series in page documents
\* numbered from 1, every page but the last of exactly the bound, the last
\* of 1 to the bound, the pages in order making up the series list; each
\* page document has no movies, and the movies (if any) are all in the one
\* `_movies` document, which has no series.
C8_Pagination ==
    pc = "done" =>
        \A k \in DOMAIN by_category :
            TotalItems(by_category[k].items) > MAX_ITEMS_PER_FILE =>
                /\ PagesOf(PageDocs(by_category[k].category), Slug(k),
                           SeriesOf(by_category[k].items))
                /\ MoviesIn(DocsNamed(JsonFile(Slug(k) \o <<"_","m","o","v","i","e","s">>)),
                            MoviesOf(by_category[k].items))
                /\ Len(DocsNamed(JsonFile(Slug(k)))) = 0

\* the documents are two pages or more, the last one short
ShortLastPage(docs) ==
    Len(docs) >= 2 /\ Len(docs[Len(docs)].data.series) < MAX_ITEMS_PER_FILE

\* a finished run with a category of two pages or more, the last one short
C8_Witness ==
    /\ pc = "done"
    /\ \E k \in DOMAIN by_category : ShortLastPage(PageDocs(by_category[k].category))

(***************************************************************************)
(* C9                                                                      *)
(***************************************************************************)

\* the categories of the written index manifest
Manifest == writes[Len(writes)].data.categories

\* C9: the index manifest of a finished run has one IndexEntry for each
\* category group and no other, its entries are in non-increasing order of
\* totalCount, and each entry's totalCount is the sum of its movieCount,
\* seriesCount and adultCount, which count the group's three lists.
C9_IndexSorted ==
    pc = "done" =>
        /\ writes[Len(writes)].file = JsonFile(<<"i","n","d","e","x">>)
        /\ Len(Manifest) = Len(by_category)
        /\ \A k \in DOMAIN by_category :
              Cardinality({j \in DOMAIN Manifest :
                              Manifest[j].name = by_category[k].category}) = 1
        /\ \A j \in DOMAIN Manifest :
              /\ j < Len(Manifest) =>
                    Manifest[j].totalCount >= Manifest[j + 1].totalCount
              /\ Manifest[j].totalCount
                    = Manifest[j].movieCount + Manifest[j].seriesCount
                         + Manifest[j].adultCount
              /\ \A k \in DOMAIN by_category :
                    Manifest[j].name = by_category[k].category =>
                        /\ Manifest[j].movieCount = Len(MoviesOf(by_category[k].items))
                        /\ Manifest[j].seriesCount = Len(SeriesOf(by_category[k].items))
                        /\ Manifest[j].adultCount = Len(AdultOf(by_category[k].items))

\* a finished run whose first category group is smaller than a later one
C9_Witness ==
    /\ pc = "done"
    /\ Len(by_category) >= 2
    /\ Len(by_category[1].items) < Len(by_category[2].items)
    /\ Manifest[1].name = by_category[2].category

(***************************************************************************)
(* C10                                                                     *)
(***************************************************************************)

IsIndexDoc(w) == w.file = JsonFile(<<"i","n","d","e","x">>)

IndexWritten == \E i \in DOMAIN writes : IsIndexDoc(writes[i])

\* the files the run is to write for the k-th category group
FilesOfGroup(k) ==
    (IF TotalItems(by_category[k].items) <= MAX_ITEMS_PER_FILE
     THEN {JsonFile(Slug(k))}
     ELSE {JsonFile(Slug(k) \o <<"_","p">> \o Str(p)) :
              p \in 1..((Len(SeriesOf(by_category[k].items)) + MAX_ITEMS_PER_FILE - 1)
                          \div MAX_ITEMS_PER_FILE)}
          \cup (IF Len(MoviesOf(by_category[k].items)) > 0
                THEN {JsonFile(Slug(k) \o <<"_","m","o","v","i","e","s">>)} ELSE {}))
    \cup (IF Len(AdultOf(by_category[k].items)) > 0
          THEN {JsonFile(Slug(k) \o <<"_","a","d","u","l","t">>)} ELSE {})

\* C10: the index manifest is the last file a run writes, after every
\* category, page, movies and adult document of every category group; a run
\* that is not finished, and a run that a failed write aborted, has written
\* no index.
C10_IndexLast ==
    /\ IndexWritten =>
          /\ pc = "done"
          /\ IsIndexDoc(writes[Len(writes)])
          /\ \A i \in 1..(Len(writes) - 1) : ~IsIndexDoc(writes[i])
          /\ \A k \in DOMAIN by_category :
                \A f \in FilesOfGroup(k) :
                    \E i \in 1..(Len(writes) - 1) : writes[i].file = f
    /\ pc = "done" => IndexWritten
    /\ pc = "aborted" => ~IndexWritten

\* a run a failed write aborted after it had written two documents or more
C10_Witness ==
    /\ pc = "aborted"
    /\ Len(writes) >= 2

(***************************************************************************)
(* C11, C12: the lexer, line by line                                       *)
(***************************************************************************)

\* the lines of the file being parsed
CurrentLines == IF input[file_idx].exists THEN FileLines(input[file_idx]) ELSE <<>>

\* the step reads a line of the file being parsed
Reading ==
    /\ pc = "parse"
    /\ input[file_idx].exists
    /\ line_idx < Len(CurrentLines)
    /\ line_idx' = line_idx + 1

\* the line the step reads, trimmed
NextLine == Strip(CurrentLines[line_idx + 1])

IsMetadataLine(l) == StartsWith(Strip(l), <<"#","E","X","T","I","N","F",":">>)

IsHttpLine(l) == StartsWith(Strip(l), <<"h","t","t","p">>)

EndsInTs(l) == EndsWith(Lower(Strip(l)), <<".","t","s">>)

\* a URL line of a live stream
IsTsUrl(l) == IsHttpLine(l) /\ EndsInTs(l)

\* the metadata line gives a title
HasTitle(l) == Truthy(ExtractName(Strip(l)))

NothingPending ==
    current_name = None /\ current_category = None /\ current_logo = None

\* the line t of the lines follows a metadata line with a title whose entry
\* no URL line has ended yet
FollowsMetadata(lines, t) ==
    \E m \in 1..(t - 1) :
        /\ IsMetadataLine(lines[m])
        /\ HasTitle(lines[m])
        /\ \A k \in (m + 1)..(t - 1) : ~IsMetadataLine(lines[k]) /\ ~IsHttpLine(lines[k])

\* among the first n lines, a line ending in `.ts` follows a metadata line
\* and no metadata line has been read after it
TsLineSinceMetadata(lines, n) ==
    \E t \in 1..n :
        /\ EndsInTs(lines[t])
        /\ ~IsMetadataLine(lines[t])
        /\ FollowsMetadata(lines, t)
        /\ \A k \in (t + 1)..n : ~IsMetadataLine(lines[k])

\* the same for a URL line ending in `.ts`
TsUrlSinceMetadata(lines, n) ==
    \E t \in 1..n :
        /\ IsTsUrl(lines[t])
        /\ FollowsMetadata(lines, t)
        /\ \A k \in (t + 1)..n : ~IsMetadataLine(lines[k])

MetadataOf(lines, u) ==
    IF \E m \in 1..(u - 1) : IsMetadataLine(lines[m])
    THEN CHOOSE m \in 1..(u - 1) :
            /\ IsMetadataLine(lines[m])
            /\ \A k \in (m + 1)..(u - 1) : ~IsMetadataLine(lines[k])
    ELSE 0

\* the URL line u ends the entry of the metadata line m: m gives a title and
\* no URL line stands between the two
EndsEntryOf(lines, u, m) ==
    /\ IsHttpLine(lines[u])
    /\ m > 0
    /\ HasTitle(lines[m])
    /\ \A k \in (m + 1)..(u - 1) : ~IsHttpLine(lines[k])

EndsEntry(lines, u) == EndsEntryOf(lines, u, MetadataOf(lines, u))

\* the category an entry has from its metadata line
CategoryOfLine(l) == OrOutros(IfMatched(AttrValue(Strip(l), <<"g","r","o","u","p","-","t","i","t","l","e","=">>), <<"O","u","t","r","o","s">>))

\* the entry the URL line u ends gives an item: it is no `.ts` stream and its
\* category is not ignored
YieldsItem(lines, u) ==
    /\ EndsEntry(lines, u)
    /\ ~EndsInTs(lines[u])
    /\ ~MatchesIgnoreList(CategoryOfLine(lines[MetadataOf(lines, u)]))

\* the URL lines among the first n lines that give an item, in file order
YieldingLines(lines, n) ==
    SelectSeq([u \in 1..n |-> u], LAMBDA u : YieldsItem(lines, u))

\* the item pairs the URL line u with the metadata line m
PairsLines(item, lines, u, m) ==
    /\ item.url = Strip(lines[u])
    /\ item.name = clean_name(ExtractName(Strip(lines[m])))
    /\ IF Truthy(AttrValue(Strip(lines[m]), <<"t","v","g","-","l","o","g","o","=">>))
       THEN "logo" \in DOMAIN item
            /\ item.logo = AttrValue(Strip(lines[m]), <<"t","v","g","-","l","o","g","o","=">>)
       ELSE "logo" \notin DOMAIN item

\* the items are those of the URL lines us, each paired with the most recent
\* metadata line before it, and no metadata line is paired twice
ItemsPair(its, lines, us) ==
    /\ Len(its) = Len(us)
    /\ \A k \in DOMAIN us : PairsLines(its[k], lines, us[k], MetadataOf(lines, us[k]))
    /\ \A j, k \in DOMAIN us :
          j # k => MetadataOf(lines, us[j]) # MetadataOf(lines, us[k])

\* C12: a URL line read while a metadata line's title is pending ends the
\* entry (with one item or none) and leaves the pending state empty; a URL
\* line read with nothing pending changes neither the items nor the pending
\* state; and at every point of the parsing of a file the items are those of
\* the URL lines that end an entry, each paired with the most recent
\* metadata line before it, no metadata line being paired with two.
C12_UrlLineEndsEntry ==
    /\ [][/\ (Reading /\ IsHttpLine(NextLine) /\ Truthy(current_name)) =>
                 (NothingPending' /\ Len(items') <= Len(items) + 1)
          /\ (Reading /\ IsHttpLine(NextLine) /\ ~Truthy(current_name)) =>
                 UNCHANGED <<items, current_name, current_category, current_logo>>]_vars
    /\ [](pc = "parse" =>
            ItemsPair(items, CurrentLines, YieldingLines(CurrentLines, line_idx)))

\* two URL lines after a metadata line have been read, and the second gave
\* no item: the one item is the first one's
C12_Witness ==
    /\ pc = "parse"
    /\ line_idx >= 3
    /\ IsHttpLine(CurrentLines[line_idx])
    /\ ~EndsInTs(CurrentLines[line_idx])
    /\ YieldsItem(CurrentLines, line_idx - 1)
    /\ Len(items) = 1
    /\ items[1].url = Strip(CurrentLines[line_idx - 1])

(***************************************************************************)
(* C13                                                                     *)
(***************************************************************************)

\* the rule k of the table matches and no rule before it does
IsFirstMatch(rules, k) == rules[k].when /\ \A j \in 1..(k - 1) : ~rules[j].when

\* the result is the name of the earliest rule that matches, and the
\* prefix-stripped category when no rule matches
NamedByRules(result, stripped, rules) ==
    /\ \A k \in DOMAIN rules : IsFirstMatch(rules, k) => result = rules[k].then
    /\ (\A k \in DOMAIN rules : ~rules[k].when) => result = stripped

NamedByFirstRule(result, stripped) ==
    NamedByRules(result, stripped, NormalizeRules(stripped, Lower(stripped)))

HasPrefix(category) ==
    \/ StartsWith(category, <<"O","N","D"," ","/">>)
    \/ StartsWith(category, <<"S","e","r","i","e","s"," ","|">>)
    \/ StartsWith(category, <<"C","O","L","E","T","Â","N","E","A",":">>)

\* the names of the rules of the table that match the category
MatchingNames(rules) == {rules[k].then : k \in {j \in DOMAIN rules : rules[j].when}}

NamesMatching(category) ==
    MatchingNames(NormalizeRules(StripCategoryPrefix(category),
                                 Lower(StripCategoryPrefix(category))))

\* every entry of sv became an item whose canonical category is the name of
\* the earliest rule its category matches; the category without its prefix
\* when it matches none, which is the category as read when it has no prefix
AllNamedByFirstRule(sv) ==
    /\ Len(all_items) = Len(sv)
    /\ \A i \in DOMAIN all_items :
          /\ NamedByFirstRule(all_items[i]["_category"],
                              StripCategoryPrefix(sv[i].category))
          /\ (~HasPrefix(sv[i].category) /\ NamesMatching(sv[i].category) = {}) =>
                all_items[i]["_category"] = sv[i].category

\* C13: when the files are parsed, the canonical category of every item is
\* the name given by the earliest rule of the chain that its (prefix-stripped)
\* category matches, whatever later rules match too, and the prefix-stripped
\* category itself, unchanged, when no rule matches.
C13_FirstRuleWins ==
    pc = "dedup" => AllNamedByFirstRule(Survivors)

\* the files are parsed, one entry's category matches two rules of different
\* names and another's matches none
C13_Witness ==
    /\ pc = "dedup"
    /\ \E i, j \in DOMAIN all_items :
          /\ Cardinality(NamesMatching(InputEntries[i].category)) >= 2
          /\ NamesMatching(InputEntries[j].category) = {}

(***************************************************************************)
(* C14                                                                     *)
(***************************************************************************)

\* the position of the last comma of the line, 0 when it has none
LastComma(line) ==
    IF \E i \in DOMAIN line : line[i] = ","
    THEN CHOOSE i \in DOMAIN line :
            line[i] = "," /\ \A k \in (i + 1)..Len(line) : line[k] # ","
    ELSE 0

\* the text that follows the last comma of the line, trimmed
AfterLastComma(line) == Strip(Tail_(line, LastComma(line) + 1))

\* the line just read
LineRead == Strip(CurrentLines[line_idx])

\* C14: when a metadata line has been read, the pending name is the text
\* after the last comma of the line (when there is a comma with text after
\* it), the pending category is the value of the group-title attribute, and
\* "Outros" when the line has no such attribute, and the pending logo is the
\* value of the tvg-logo attribute, and absent when the line has none.
C14_NameAfterLastComma ==
    (pc = "parse" /\ line_idx >= 1 /\ IsMetadataLine(LineRead)) =>
        /\ (LastComma(LineRead) > 0 /\ Len(AfterLastComma(LineRead)) > 0) =>
              current_name = AfterLastComma(LineRead)
        /\ current_category =
              (IF Contains(LineRead, <<"g","r","o","u","p","-","t","i","t","l","e","=","\"">>)
               THEN AttrValue(LineRead, <<"g","r","o","u","p","-","t","i","t","l","e","=">>) ELSE <<"O","u","t","r","o","s">>)
        /\ current_logo =
              (IF Contains(LineRead, <<"t","v","g","-","l","o","g","o","=","\"">>)
               THEN AttrValue(LineRead, <<"t","v","g","-","l","o","g","o","=">>) ELSE None)

(***************************************************************************)
(* C15                                                                     *)
(***************************************************************************)

\* the index entry is one of a category emitted in pages
IsPaginated(e) == "pages" \in DOMAIN e

\* the pages count of the entry, the totalPages of each page document and
\* the number of page documents are the same, and hasMovies tells whether
\* there is a movies document
PagesAgree(e, docs, movies_docs) ==
    /\ e.pages = Len(docs)
    /\ \A p \in DOMAIN docs : docs[p].data.totalPages = Len(docs)
    /\ e.hasMovies <=> Len(movies_docs) > 0

\* C15: in a finished run, for every index entry of a category emitted in
\* pages, the entry's `pages`, the `totalPages` of each of its page
\* documents and the number of its `_pN` documents are equal, and
\* `hasMovies` is true exactly when a `_movies` document was written.
C15_PagesAgree ==
    pc = "done" =>
        \A j \in DOMAIN Manifest :
            IsPaginated(Manifest[j]) =>
                PagesAgree(Manifest[j], PageDocs(Manifest[j].name),
                           DocsNamed(JsonFile(Manifest[j].id \o <<"_","m","o","v","i","e","s">>)))

(***************************************************************************)
(* C16                                                                     *)
(***************************************************************************)

\* C16: the category groups of a run have pairwise different, non-empty
\* filenames, and no two documents the run has written (the index manifest
\* among them) were written to the same file.
C16_FilenamesDistinct ==
    /\ \A k, l \in DOMAIN by_category : k # l => Slug(k) # Slug(l)
    /\ \A k \in DOMAIN by_category : Len(Slug(k)) > 0
    /\ \A i, j \in DOMAIN writes : i # j => writes[i].file # writes[j].file

(***************************************************************************)
(* C17                                                                     *)
(***************************************************************************)

\* the places of the lists of the written documents where the item stands
PlacesOf(item, emitted) == {p \in DOMAIN emitted : emitted[p] = item}

\* the places where an item of the url stands
PlacesOfUrl(url, emitted) == {p \in DOMAIN emitted : emitted[p].url = url}

\* every retained item stands at one place of the lists, and no other item
\* of its url does
EachOnce(retained, emitted) ==
    /\ Len(emitted) = Len(retained)
    /\ \A i \in DOMAIN retained :
          /\ Cardinality(PlacesOf(retained[i], emitted)) = 1
          /\ Cardinality(PlacesOfUrl(retained[i].url, emitted)) = 1

\* the manifest of a finished run
IndexData == writes[Len(writes)].data

\* C17: in a finished run, every entry the deduplicator retained stands in
\* exactly one list (movies, series or adult items) of exactly one of the
\* documents written, the lists hold nothing else, and the index's
\* totalMovies + totalSeries + totalAdult is the number of retained entries.
C17_ItemsConserved ==
    pc = "done" =>
        /\ EachOnce(unique_items, Emitted)
        /\ IndexData.totalMovies + IndexData.totalSeries + IndexData.totalAdult
              = Len(unique_items)

HasDocOfKind(field) == \E i \in DOMAIN writes : field \in DOMAIN writes[i].data

\* a finished run that wrote a series page, a movies document and an adult
\* document of a category above the page bound
C17_Witness ==
    /\ pc = "done"
    /\ HasDocOfKind("page")
    /\ \E i \in DOMAIN writes :
          /\ "page" \notin DOMAIN writes[i].data
          /\ "movies" \in DOMAIN writes[i].data
          /\ Len(writes[i].data.movies) > 0
          /\ Len(writes) > 3
    /\ HasDocOfKind("items")

(***************************************************************************)
(* C18                                                                     *)
(***************************************************************************)

\* the names the rule table returns, and the defaults of the two prefixes
CanonicalNames ==
    {NormalizeRules(<<>>, <<>>)[k].then : k \in DOMAIN NormalizeRules(<<>>, <<>>)}
    \cup {<<"F","i","l","m","e","s">>, <<"S","é","r","i","e","s">>}

\* an entry whose category is a canonical name keeps it, and the canonical
\* category of every item is normalized to itself
AllFixed(sv) ==
    /\ Len(all_items) = Len(sv)
    /\ \A i \in DOMAIN all_items :
          /\ sv[i].category \in CanonicalNames =>
                all_items[i]["_category"] = sv[i].category
          /\ normalize_category(all_items[i]["_category"]) = all_items[i]["_category"]

\* C18: when the files are parsed, an entry whose category is one of the
\* canonical names of the rule table (or "Filmes", "Séries") has that name
\* as its canonical category, and the canonical category the normalizer gave
\* any item is normalized to itself.
C18_CanonicalNamesFixed ==
    pc = "dedup" => AllFixed(Survivors)
=============================================================================
